---- MODULE Spec2Model ----
(***************************************************************************)
(* Certificate lifecycle subsystem of sprintframework:                     *)
(*   CertificateManager   (pkg/core/dyndns_service.go, second file part)   *)
(*   CertificateService   (pkg/core/certificate_service.go)                *)
(*   CertificateRepository(pkg/core/certificate_repository.go)             *)
(*   CertificateIssuerService (pkg/core/certificate_issuer_service.go)     *)
(*                                                                         *)
(* Time is counted in hours.  Goroutines are modelled as tasks whose       *)
(* program counter (pc) names the next statement they execute; every step  *)
(* between two pcs is one atomic operation of the Go code (a sync.Map      *)
(* call, a storage call, a channel handoff).                               *)
(***************************************************************************)
EXTENDS Integers, Sequences, FiniteSets, TLC

\* ---------------------------------------------------------------- bounds
MaxTime == 1
MaxGen == 3
FirstGen == 2
MaxRen == 2
MaxLookups == 2
MaxCmds == 1
MaxWatch == 3
MaxDeletes == 2
MaxKeys == 3
MaxDepth == 2
MaxSeen == 3
MaxTasks == 2
MaxOps == 2
MaxDispatch == 2
MaxCreates == 3
MaxFreezes == 2
MaxEvents == 2
MaxTriggers == 3

\* ------------------------------------------------------ program constants
RenewBefore == 24
SerialWidth == 8
IssueGraceInterval == 1
ServerCertValidity == 18240

\* ------------------------------------------------------------ value sets
Zones == {"localhost", "a.com"}
CacheKeys == Zones \cup {"127.0.0.1"}
ServerNames == {"", "a.com"}
HandshakeNames == ServerNames \cup {"www.a.com"}
Providers == {"self", "acme", "custom"}
Gens == 1..MaxGen
Rens == 1..MaxRen
Lookups == 1..MaxLookups
SRIds == 1..(MaxGen + MaxRen)
Handles == 1..MaxWatch
Deletes == 1..MaxDeletes

NoCert == [nb |-> 0, na |-> 0, pem |-> "none"]
UploadCerts == { [nb |-> 0, na |-> 0, pem |-> "ok"] }
EmptyZone == [zone |-> "", provider |-> "", email |-> "", cert |-> NoCert]

VARIABLES
    \* --- repository (zone records) and clock
    now, zoneStore, firstProv,
    \* --- manager
    constructed, cache, st, nextGen, unknown,
    renewal, ren, nextRen, sr,
    \* --- tasks
    lk, watcher, admin, cmds,
    \* --- repository watch registry and one DeleteZone caller
    watchNum, watchMap, wc, dz, returned,
    \* --- self signers: the store, the key generator and the last LoadIssuer
    selfStore, nextKey, built, lastLoad, issuing, autoupdate,
    \* --- the caller of CertificateManager.Destroy
    destroy,
    \* --- CertificateService: ACME accounts, the ACME mutex, lego's logger,
    \* --- the process has panicked, the callers and their number so far
    accounts, acmeMutex, legoLogger, crashed, op, ops

repoVars == <<zoneStore, firstProv>>
cacheVars == <<cache, st, nextGen>>
renVars == <<renewal, ren, nextRen, sr>>
taskVars == <<lk, watcher, admin, cmds>>
mgrVars == <<now, constructed, unknown, repoVars, cacheVars, renVars, taskVars>>
watchVars == <<watchNum, watchMap, wc, dz, returned>>
chainVars == <<selfStore, nextKey, built, lastLoad, issuing, autoupdate>>
svcVars == <<destroy, accounts, acmeMutex, legoLogger, crashed, op, ops>>
extVars == <<watchVars, chainVars, svcVars>>

\* ------------------------------------------------------- initial records
NoState ==
    [zone |-> "", tlsCert |-> NoCert, loadErr |-> "nil", issueErr |-> "nil",
     issueAttempt |-> 0, loads |-> 0, verr |-> "nil", prov |-> "",
     renewAsked |-> FALSE, renewNow |-> FALSE, invalidated |-> FALSE,
     bundle |-> FALSE, sync |-> FALSE, issue |-> FALSE]
NoRenewal ==
    [zone |-> "", at |-> 0, fireAt |-> 0, timer |-> "nil", stop |-> "new",
     gen |-> 0, pc |-> "none", entry |-> EmptyZone, stale |-> FALSE]
NoSR == [pc |-> "none", zone |-> "", at |-> 0, gen |-> 0, r |-> 0, from |-> 0]
IdleLookup == [pc |-> "idle", name |-> "", zone |-> "", s |-> 0, seen |-> <<>>]

\* =========================================================================
\* CertificateRepository: zone records
\* =========================================================================

\* FindZone: a missing key leaves the returned entry empty (Zone = "").
FindZone(zone) == zoneStore[zone]

\* Storage.Set under the zone key; firstProv remembers the provider kind of
\* the first save of the record's current life (history variable).
StorageSet(store, entry) == [store EXCEPT ![entry.zone] = entry]
FirstProvAfterSave(fp, entry) ==
    IF fp[entry.zone] = "" THEN [fp EXCEPT ![entry.zone] = entry.provider] ELSE fp

\* =========================================================================
\* CertificateService: issuance
\* =========================================================================

\* IssueSelfSignedCertificate: a server leaf valid from now for 2 years and
\* 30 days (IssueServerCert), stored in the entry's bundle.
IssueSelfSignedCertificate(entry) ==
    [entry EXCEPT !.cert = [nb |-> now, na |-> now + ServerCertValidity, pem |-> "ok"]]

\* The lifetimes an ACME server hands out (external input).
AcmeLifetimes == {RenewBefore + 1, ServerCertValidity}
IssueAcmeCertificate(entry, life) ==
    [entry EXCEPT !.cert = [nb |-> now, na |-> now + life, pem |-> "ok"]]

\* RenewCertificate up to its SaveZone: the error it returns for `entry`
\* (the result of FindZone(zone)), "nil" when it goes on to save.  acmeOk says
\* whether IssueAcmeCertificate gets through (line 352: the DNS provider has
\* its credentials).
RenewCertificateErr(zone, entry, acmeOk) ==
    IF entry.zone # zone THEN "zone is not found"
    ELSE IF entry.provider = "self" THEN "nil"
    ELSE IF entry.provider = "acme"
    THEN (IF zone = "localhost" THEN "zone name component count invalid"
          ELSE IF acmeOk THEN "nil" ELSE "DNS provider does not have credentials")
    ELSE IF entry.provider = "custom" THEN "can not issue custom certificates"
    ELSE "unknown cert provider"
RenewedEntry(entry, life) ==
    IF entry.provider = "self" THEN IssueSelfSignedCertificate(entry)
    ELSE IssueAcmeCertificate(entry, life)

\* =========================================================================
\* CertificateManager: pure parts
\* =========================================================================

\* hello.ServerName -> zone, lines 336-358: a name with at most one dot is
\* its own zone, a longer one has the zone util.ToZone gives.
zoneOf(name) ==
    IF name = "" THEN "localhost"
    ELSE IF name = "www.a.com" THEN "a.com"
    ELSE name

validateCertificate(leaf, t) ==
    IF t < leaf.nb THEN "ErrNotValidYetCertificate"
    ELSE IF t > leaf.na THEN "ErrExpiredCertificate"
    ELSE "nil"

\* tls.X509KeyPair / x509.ParseCertificate on the stored bundle.
parseCertificateErr(entry) == IF entry.cert.pem = "ok" THEN "nil" ELSE "tls: failed to parse"

\* A loadCertificate that delays the renewal of an invalid leaf by the grace
\* interval.
renewTimeGrace(verr, leaf) ==
    IF verr # "nil" THEN now + IssueGraceInterval ELSE leaf.na - RenewBefore

\* The time loadCertificate asks startRenew for, lines 454-460.
renewTime(verr, leaf) == IF verr # "nil" THEN now ELSE leaf.na - RenewBefore

\* loadCertificate(zone): what it returns (cert, err) and what it starts:
\*   sync  - the synchronous RenewCertificate of a self zone without bundle
\*   issue - the asynchronous issueCertificate of an acme zone without bundle
\*   renew - go startRenew(zone, at)
loadCertificate(zone) ==
    LET entry == FindZone(zone)
        verr == validateCertificate(entry.cert, now)
        none == [cert |-> NoCert, err |-> "nil", sync |-> FALSE, issue |-> FALSE,
                 renew |-> FALSE, at |-> 0, verr |-> "nil", prov |-> entry.provider,
                 bundle |-> entry.cert # NoCert]
    IN  IF entry.cert = NoCert
        THEN [none EXCEPT !.err = "ErrCertificateNotFound"]
        ELSE IF entry.cert = NoCert
        THEN [none EXCEPT !.err = "ErrCertificateNotIssued",
                          !.sync = (entry.provider = "self"),
                          !.issue = (entry.provider = "acme")]
        ELSE IF parseCertificateErr(entry) # "nil"
        THEN [none EXCEPT !.err = parseCertificateErr(entry)]
        ELSE [none EXCEPT !.cert = entry.cert, !.verr = verr,
                          !.renew = (entry.provider \in {"self", "acme"}),
                          !.at = renewTime(verr, entry.cert)]

\* certState.Clone: "nil" when a certificate is returned, else the error.
Clone(c) ==
    IF c.tlsCert # NoCert THEN "nil"
    ELSE IF c.issueErr # "nil"
    THEN (IF c.issueAttempt + IssueGraceInterval < now
          THEN "ErrCertificateIssueAfterGrace" ELSE "ErrCertificateIssue")
    ELSE IF c.loadErr # "nil"
    THEN (IF c.loadErr = "ErrCertificateNotFound"
          THEN "ErrCertificateNotFound" ELSE "ErrInvalidCertificate")
    ELSE "ErrCertificateNotReady"

\* certRenewal.Stop on renewal r of the renewal table rn.  stopOnce runs the
\* body once; timer.Stop() of a timer that has fired returns false and the
\* body then receives from timer.C, which is nil for an AfterFunc timer: the
\* receive never completes, and neither does any later Stop (the Once is held).
StopBlocks(rn, r) ==
    \/ rn[r].stop = "blocked"
    \/ rn[r].stop = "new" /\ rn[r].timer = "fired"
certRenewalStop(rn, r) ==
    IF rn[r].stop # "new" THEN rn
    ELSE [rn EXCEPT ![r].stop = IF rn[r].timer = "fired" THEN "blocked" ELSE "done",
                    ![r].timer = IF rn[r].timer = "live" THEN "stopped" ELSE @]

\* The state of generation g of `zone` after loadOnce.Do ran loadCertificate.
\* loads, verr, prov, renewAsked and renewNow are history fields: how often
\* the state was loaded, what validateCertificate said, the provider read,
\* whether startRenew was started and whether for the current time; so are
\* bundle, sync and issue: whether the record read had a bundle, whether the
\* load called RenewCertificate itself and whether it started issueCertificate.
LoadedState(c, zone) ==
    LET out == loadCertificate(zone)
    IN  [c EXCEPT !.tlsCert = out.cert, !.loadErr = out.err, !.loads = @ + 1,
                  !.verr = out.verr, !.prov = out.prov, !.renewAsked = out.renew,
                  !.renewNow = (out.renew /\ out.at = now),
                  !.bundle = out.bundle, !.sync = out.sync, !.issue = out.issue]
\* go t.startRenew(zone, at) started by the load of generation g.
SpawnRenew(tasks, g, zone) ==
    LET out == loadCertificate(zone)
    IN  IF out.renew
        THEN [tasks EXCEPT ![g] = [pc |-> "lad", zone |-> zone, at |-> out.at,
                                    gen |-> g, r |-> 0, from |-> 0]]
        ELSE tasks

\* =========================================================================
\* Initial state: the beans are constructed, PostConstruct has not run yet.
\* The store may hold a localhost zone from an earlier run.
\* =========================================================================
InitStores ==
    { [z \in Zones |-> EmptyZone],
      [z \in Zones |-> IF z = "localhost"
                       THEN [zone |-> z, provider |-> "self", email |-> "",
                             cert |-> [nb |-> 0, na |-> 0, pem |-> "ok"]]
                       ELSE EmptyZone] }

\* The manager and its tasks before PostConstruct, over the store it finds,
\* with the certStates from number `first` on still to be created.
InitManagerFrom(first) ==
    /\ nextGen = first
    /\ now = 0
    /\ firstProv = [z \in Zones |-> zoneStore[z].provider]
    /\ constructed = "new"
    /\ cache = [k \in CacheKeys |-> 0]
    /\ st = [g \in Gens |-> NoState]
    /\ unknown = [z \in Zones |-> {}]
    /\ renewal = [z \in Zones |-> 0]
    /\ ren = [r \in Rens |-> NoRenewal]
    /\ nextRen = 1
    /\ sr = [i \in SRIds |-> NoSR]
    /\ lk = [l \in Lookups |-> IdleLookup]
    /\ watcher = [pc |-> "off", zone |-> ""]
    /\ admin = [pc |-> "idle", zone |-> "", event |-> ""]
    /\ cmds = 0

\* The specifications with every task of the manager keep the certStates
\* FirstGen..MaxGen.
InitManager == InitManagerFrom(FirstGen)

InitMgr == zoneStore \in InitStores /\ InitManager

\* The stores a restarted node can find: what `upload` saved in an earlier
\* run (uploadCert, lines 586-620, checks the zone name and the provider of
\* the dump only; its bundle may be missing).
Uploaded(zone, provider, cert) ==
    [zone |-> zone, provider |-> provider, email |-> "", cert |-> cert]
RestartStores ==
    InitStores \cup
    { [z \in Zones |-> IF z = "localhost"
                       THEN Uploaded(z, "custom", [nb |-> 0, na |-> 0, pem |-> "ok"])
                       ELSE EmptyZone] } \cup
    { [z \in Zones |-> IF z = "localhost"
                       THEN Uploaded(z, "self", [nb |-> 0, na |-> ServerCertValidity,
                                                 pem |-> "ok"])
                       ELSE Uploaded(z, p, NoCert)] : p \in {"self", "acme"} } \cup
    { [z \in Zones |-> IF z = "localhost"
                       THEN Uploaded(z, "self", [nb |-> 0, na |-> ServerCertValidity,
                                                 pem |-> "ok"])
                       ELSE Uploaded(z, "acme", [nb |-> 0, na |-> 0, pem |-> "ok"])] }

\* The clock advances by one hour.
Tick ==
    /\ now < MaxTime
    /\ now' = now + 1
    /\ UNCHANGED <<constructed, unknown, repoVars, cacheVars, renVars, taskVars>>
    /\ UNCHANGED extVars

\* -------------------------------------------------------------------------
\* PostConstruct, lines 248-268: ensure the localhost zone and its bundle.
\* No watcher is registered yet, so the saves notify nobody.
\* -------------------------------------------------------------------------
PostConstructZone ==
    /\ constructed = "new"
    /\ LET found == FindZone("localhost")
           entry == IF found.zone = ""
                    THEN [zone |-> "localhost", provider |-> "self", email |-> "",
                          cert |-> NoCert]
                    ELSE found
           err == IF entry.cert = NoCert
                  THEN RenewCertificateErr("localhost", entry, TRUE) ELSE "nil"
           saved == IF entry.cert = NoCert /\ err = "nil"
                    THEN RenewedEntry(entry, ServerCertValidity) ELSE entry
       IN  /\ zoneStore' = StorageSet(zoneStore, saved)
           /\ firstProv' = FirstProvAfterSave(firstProv, saved)
           /\ constructed' = IF err = "nil" THEN "zone" ELSE "failed"
    /\ UNCHANGED <<now, unknown, cacheVars, renVars, taskVars>>
    /\ UNCHANGED extVars

\* PostConstruct, lines 269-273: s := getCertificate("localhost"),
\* cache.Store("127.0.0.1", s), Watch(onZoneChangeEvent).
PostConstructCache ==
    /\ constructed = "zone"
    /\ LET g == nextGen
       IN  /\ st' = [st EXCEPT ![g] = LoadedState([NoState EXCEPT !.zone = "localhost"],
                                                  "localhost")]
           /\ sr' = SpawnRenew(sr, g, "localhost")
           /\ cache' = [cache EXCEPT !["localhost"] = g, !["127.0.0.1"] = g]
           /\ nextGen' = g + 1
    /\ watcher' = [pc |-> "select", zone |-> ""]
    /\ constructed' = "done"
    /\ UNCHANGED <<now, unknown, repoVars, renewal, ren, nextRen, lk, admin, cmds>>
    /\ UNCHANGED extVars

\* -------------------------------------------------------------------------
\* Garbage: a certState no cache key and no running lookup refers to, and a
\* certRenewal that left the registry with its timer stopped or its renew
\* task finished, are unreachable objects; they are reset to one value.
\* -------------------------------------------------------------------------
LiveState(g, c, l) ==
    \/ \E k \in CacheKeys : c[k] = g
    \/ \E x \in Lookups : l[x].s = g
Sweep(s, c, l) == [g \in Gens |-> IF LiveState(g, c, l) THEN s[g] ELSE NoState]

DeadRenewal == [NoRenewal EXCEPT !.timer = "dead", !.stop = "done", !.pc = "done"]
Tidy(rn, reg) ==
    [r \in Rens |->
        LET registered == \E z \in Zones : reg[z] = r
        IN  IF /\ ~registered
               /\ \/ rn[r].timer = "stopped"
                  \/ rn[r].timer = "fired" /\ rn[r].pc = "done"
            THEN DeadRenewal
            ELSE [rn[r] EXCEPT !.at = IF registered THEN @ ELSE 0,
                               !.fireAt = IF rn[r].timer = "live" THEN @ ELSE 0]]

\* -------------------------------------------------------------------------
\* GetCertificate (one TLS handshake), lines 335-389
\* -------------------------------------------------------------------------
\* A LoadOrStore that never finds the entry of another caller.
cacheLoadedNever(c, zone) == FALSE

\* cache.LoadOrStore(zone, s) found an entry of another caller.
cacheLoaded(c, zone) == c[zone] # 0

\* The zones the loop of GetCertificate has called getCertificate with, in
\* order (history field, at most MaxSeen entries are kept).
Examined(seen, zone) == IF Len(seen) < MaxSeen THEN Append(seen, zone) ELSE seen

\* getCertificate, lines 394-404: LoadOrStore of a fresh certState by lookup
\* l; the caller that stored it goes on to load it.
GetState(l, name, zone) ==
    IF cacheLoaded(cache, zone)
    THEN /\ lk' = [lk EXCEPT ![l] = [pc |-> "clone", name |-> name, zone |-> zone,
                                     s |-> cache[zone],
                                     seen |-> Examined(lk[l].seen, zone)]]
         /\ UNCHANGED cacheVars
    ELSE /\ nextGen <= MaxGen
         /\ st' = [st EXCEPT ![nextGen] = [NoState EXCEPT !.zone = zone]]
         /\ cache' = [cache EXCEPT ![zone] = nextGen]
         /\ nextGen' = nextGen + 1
         /\ lk' = [lk EXCEPT ![l] = [pc |-> "load", name |-> name, zone |-> zone,
                                     s |-> nextGen,
                                     seen |-> Examined(lk[l].seen, zone)]]

\* lines 336-369: the zone of the server name and the first getCertificate.
\* (Idle lookup slots are taken in order: the slots are interchangeable.)
LookupStart(l, name) ==
    /\ constructed = "done"
    /\ lk[l].pc = "idle"
    /\ \A x \in Lookups : x < l => lk[x].pc # "idle"
    /\ GetState(l, name, zoneOf(name))
    /\ UNCHANGED <<now, constructed, unknown, repoVars, renVars, watcher, admin, cmds>>
    /\ UNCHANGED extVars

\* line 369 on the retry of the loop
LookupGet(l) ==
    /\ lk[l].pc = "get"
    /\ GetState(l, lk[l].name, lk[l].zone)
    /\ UNCHANGED <<now, constructed, unknown, repoVars, renVars, watcher, admin, cmds>>
    /\ UNCHANGED extVars

\* getCertificate, lines 406-416: s.loadOnce.Do(loadCertificate), run by the
\* caller that stored s.
LookupLoad(l) ==
    /\ lk[l].pc = "load"
    /\ st' = [st EXCEPT ![lk[l].s] = LoadedState(@, lk[l].zone)]
    /\ sr' = SpawnRenew(sr, lk[l].s, lk[l].zone)
    /\ lk' = [lk EXCEPT ![l].pc = "clone"]
    /\ UNCHANGED <<now, constructed, unknown, repoVars, cache, nextGen,
                   renewal, ren, nextRen, watcher, admin, cmds>>
    /\ UNCHANGED extVars

\* lines 336-342: the domain of the handshake, util.UnFqdn of the server
\* name or of "localhost".
domainOf(name) == IF name = "" THEN "localhost" ELSE name

\* addUnknown, lines 565-570: unknown.LoadOrStore(zone), domains.Store(domain)
addUnknown(unk, zone, domain) == [unk EXCEPT ![zone] = @ \cup {domain}]

\* A retry decision that goes on with localhost after every error.
AnswerRetryAlways(l) == IF Clone(st[lk[l].s]) = "nil" THEN "cert" ELSE ""

\* GetCertificate, lines 370-386: Clone, addUnknown after
\* ErrCertificateNotFound, and the decision of the retry loop:
\* the answer of the handshake, or "" when the loop goes on with localhost.
\* (ErrCertificateIssueAfterGrace would call InvalidateCache and retry; no
\* certState ever carries an issue error, see loadCertificate.)
Answer(l) ==
    LET err == Clone(st[lk[l].s])
    IN  IF err = "nil" THEN "cert"
        ELSE IF lk[l].zone # "localhost" THEN ""
        ELSE err

LookupClone(l) ==
    /\ lk[l].pc = "clone"
    /\ lk' = [lk EXCEPT ![l] =
                 IF Answer(l) = ""
                 THEN [@ EXCEPT !.pc = "get", !.zone = "localhost", !.s = 0]
                 ELSE IdleLookup]
    /\ st' = Sweep(st, cache, lk')
    /\ unknown' = IF Clone(st[lk[l].s]) = "ErrCertificateNotFound"
                  THEN addUnknown(unknown, lk[l].zone, domainOf(lk[l].name))
                  ELSE unknown
    /\ UNCHANGED <<now, constructed, repoVars, cache, nextGen,
                   renVars, watcher, admin, cmds>>
    /\ UNCHANGED extVars

\* -------------------------------------------------------------------------
\* InvalidateCache, lines 281-289, as the three steps a caller takes
\* -------------------------------------------------------------------------
\* A cache.Delete that leaves the entry in the cache.
cacheDeleteKeeps(c, zone) == c

\* line 282: the cache after t.cache.Delete(zone)
cacheDelete(c, zone) == [c EXCEPT ![zone] = 0]

\* line 282: t.cache.Delete(zone).  invalidated marks the certState that was
\* the cached one at that moment (history field).
Invalidated(s, g) == IF g = 0 THEN s ELSE [s EXCEPT ![g].invalidated = TRUE]
InvDeleteCache(zone) ==
    /\ cache' = cacheDelete(cache, zone)
    /\ st' = Sweep(Invalidated(st, cache[zone]), cache', lk)
    /\ UNCHANGED nextGen

\* lines 283-287: r.Stop() of the registered renewal, if any
InvStop(zone) ==
    /\ ren' = IF renewal[zone] # 0 THEN certRenewalStop(ren, renewal[zone]) ELSE ren
    /\ UNCHANGED <<renewal, nextRen>>
InvStopBlocks(zone) == renewal[zone] # 0 /\ StopBlocks(ren, renewal[zone])

\* line 288: t.renewal.Delete(zone)
InvDeleteRenewal(zone) ==
    /\ renewal' = [renewal EXCEPT ![zone] = 0]
    /\ ren' = Tidy(ren, renewal')
    /\ UNCHANGED nextRen

\* -------------------------------------------------------------------------
\* startRenew(zone, at), lines 465-492; task i runs it
\* -------------------------------------------------------------------------
\* line 470: the registered renewal fires later than the requested time
firesLater(r, at) == ren[r].at > at

\* startRenew returned to the renew task of renewal `from` (0: a goroutine
\* of its own), which is then finished.
Returned(rn, from) == IF from = 0 THEN rn ELSE [rn EXCEPT ![from].pc = "done"]

\* lines 468-476: LoadAndDelete of the registered renewal; stop it when it
\* fires later than `at`, else return.
SRLoadAndDelete(i) ==
    /\ sr[i].pc = "lad"
    /\ LET zone == sr[i].zone
           pre == renewal[zone]
       IN  IF pre = 0
           THEN /\ sr' = [sr EXCEPT ![i].pc = "los"]
                /\ UNCHANGED <<renewal, ren>>
           ELSE /\ renewal' = [renewal EXCEPT ![zone] = 0]
                /\ IF firesLater(pre, sr[i].at)
                   THEN /\ ren' = Tidy(certRenewalStop(ren, pre), renewal')
                        /\ sr' = [sr EXCEPT ![i] =
                                    IF StopBlocks(ren, pre)
                                    THEN [NoSR EXCEPT !.pc = "blocked", !.zone = zone,
                                                      !.from = sr[i].from]
                                    ELSE [@ EXCEPT !.pc = "los"]]
                   ELSE /\ sr' = [sr EXCEPT ![i] = NoSR]
                        /\ ren' = Tidy(Returned(ren, sr[i].from), renewal')
    /\ UNCHANGED <<now, constructed, unknown, repoVars, cacheVars, nextRen, taskVars>>
    /\ UNCHANGED extVars

\* lines 477-486: LoadOrStore of a new certRenewal; retry when another one
\* was registered meanwhile.
SRLoadOrStore(i) ==
    /\ sr[i].pc = "los"
    /\ LET zone == sr[i].zone
       IN  IF renewal[zone] # 0
           THEN /\ sr' = [sr EXCEPT ![i].pc = "lad"]
                /\ UNCHANGED <<renewal, ren, nextRen>>
           ELSE /\ nextRen <= MaxRen
                /\ ren' = [ren EXCEPT ![nextRen] =
                             [NoRenewal EXCEPT !.zone = zone, !.at = sr[i].at,
                                               !.gen = sr[i].gen]]
                /\ renewal' = [renewal EXCEPT ![zone] = nextRen]
                /\ nextRen' = nextRen + 1
                /\ sr' = [sr EXCEPT ![i].pc = "timer", ![i].r = nextRen]
    /\ UNCHANGED <<now, constructed, unknown, repoVars, cacheVars, taskVars>>
    /\ UNCHANGED extVars

\* lines 487-491: r.timer.Store(time.AfterFunc(after, r.renew)); a time
\* that is not in the future fires after a millisecond.
SRTimer(i) ==
    /\ sr[i].pc = "timer"
    /\ ren' = Tidy(Returned([ren EXCEPT ![sr[i].r].timer = "live",
                                         ![sr[i].r].fireAt =
                                             IF sr[i].at > now THEN sr[i].at ELSE now],
                             sr[i].from), renewal)
    /\ sr' = [sr EXCEPT ![i] = NoSR]
    /\ UNCHANGED <<now, constructed, unknown, repoVars, cacheVars, renewal, nextRen, taskVars>>
    /\ UNCHANGED extVars

\* -------------------------------------------------------------------------
\* certRenewal.renew, lines 647-658: the timer's own goroutine
\* -------------------------------------------------------------------------
TimerFire(r) ==
    /\ ren[r].timer = "live"
    /\ now >= ren[r].fireAt
    /\ ren' = Tidy([ren EXCEPT ![r].timer = "fired", ![r].pc = "begin"], renewal)
    /\ UNCHANGED <<now, constructed, unknown, repoVars, cacheVars, renewal, nextRen, sr, taskVars>>
    /\ UNCHANGED extVars

\* An InvalidateCache(zone) that has deleted the cache entry and has not
\* returned yet.
InvalidateInProgress(zone) ==
    \/ watcher.zone = zone /\ watcher.pc \in {"inv2", "inv3", "blocked"}
    \/ \E r \in Rens : ren[r].zone = zone /\ ren[r].pc \in {"inv2", "inv3", "blocked"}

\* RenewCertificate, line 231: FindZone.  stale (history field) records that
\* the cache generation this renewal was created for was invalidated by an
\* InvalidateCache that has returned.
RenewBegin(r) ==
    /\ ren[r].pc = "begin"
    /\ ren' = [ren EXCEPT ![r].pc = "issue", ![r].entry = FindZone(ren[r].zone),
                          ![r].stale = /\ cache[ren[r].zone] # ren[r].gen
                                       /\ ~InvalidateInProgress(ren[r].zone)]
    /\ UNCHANGED <<now, constructed, unknown, repoVars, cacheVars, renewal, nextRen, sr, taskVars>>
    /\ UNCHANGED extVars

\* RenewCertificate, lines 235-257: issue and Storage.Set; on an error renew
\* calls startRenew(zone, now + IssueGraceInterval), line 654.
RenewIssue(r, acmeOk, life) ==
    /\ ren[r].pc = "issue"
    /\ LET err == RenewCertificateErr(ren[r].zone, ren[r].entry, acmeOk)
           saved == RenewedEntry(ren[r].entry, life)
       IN  IF err = "nil"
           THEN /\ zoneStore' = StorageSet(zoneStore, saved)
                /\ firstProv' = FirstProvAfterSave(firstProv, saved)
                /\ ren' = [ren EXCEPT ![r].pc = "notify", ![r].entry = EmptyZone,
                                      ![r].stale = FALSE]
                /\ UNCHANGED sr
           ELSE /\ ren' = [ren EXCEPT ![r].pc = "retry", ![r].entry = EmptyZone,
                                      ![r].stale = FALSE]
                /\ sr' = [sr EXCEPT ![MaxGen + r] =
                            [pc |-> "lad", zone |-> ren[r].zone,
                             at |-> now + IssueGraceInterval, gen |-> ren[r].gen,
                             r |-> 0, from |-> r]]
                /\ UNCHANGED repoVars
    /\ UNCHANGED <<now, constructed, unknown, cacheVars, renewal, nextRen, taskVars>>
    /\ UNCHANGED extVars

\* renew, line 652: InvalidateCache(zone) after a successful renewal
RenewInvCache(r) ==
    /\ ren[r].pc = "inv1"
    /\ InvDeleteCache(ren[r].zone)
    /\ ren' = [ren EXCEPT ![r].pc = "inv2"]
    /\ UNCHANGED <<now, constructed, unknown, repoVars, renewal, nextRen, sr, taskVars>>
    /\ UNCHANGED extVars

RenewInvStop(r) ==
    /\ ren[r].pc = "inv2"
    /\ LET zone == ren[r].zone
           rn == IF renewal[zone] # 0 THEN certRenewalStop(ren, renewal[zone]) ELSE ren
       IN  ren' = [rn EXCEPT ![r].pc = IF InvStopBlocks(zone) THEN "blocked" ELSE "inv3"]
    /\ UNCHANGED <<now, constructed, unknown, repoVars, cacheVars, renewal, nextRen, sr, taskVars>>
    /\ UNCHANGED extVars

RenewInvDelete(r) ==
    /\ ren[r].pc = "inv3"
    /\ renewal' = [renewal EXCEPT ![ren[r].zone] = 0]
    /\ ren' = Tidy([ren EXCEPT ![r].pc = "done"], renewal')
    /\ UNCHANGED <<now, constructed, unknown, repoVars, cacheVars, nextRen, sr, taskVars>>
    /\ UNCHANGED extVars

\* -------------------------------------------------------------------------
\* The manager's watcher goroutine (Watch, lines 200-212 of the repository)
\* running onZoneChangeEvent -> InvalidateCache.  notifyAll hands the event
\* over on an unbuffered channel: the sender waits for the receive.
\* -------------------------------------------------------------------------
WatcherRecvAdmin ==
    /\ watcher.pc = "select"
    /\ admin.pc = "notify"
    /\ watcher' = [pc |-> "inv1", zone |-> admin.zone]
    /\ admin' = [pc |-> "idle", zone |-> "", event |-> ""]
    /\ UNCHANGED <<now, constructed, unknown, repoVars, cacheVars, renVars, lk, cmds>>
    /\ UNCHANGED extVars

WatcherRecvRenew(r) ==
    /\ watcher.pc = "select"
    /\ ren[r].pc = "notify"
    /\ watcher' = [pc |-> "inv1", zone |-> ren[r].zone]
    /\ ren' = [ren EXCEPT ![r].pc = "inv1"]
    /\ UNCHANGED <<now, constructed, unknown, repoVars, cacheVars, renewal, nextRen, sr,
                   lk, admin, cmds>>
    /\ UNCHANGED extVars

WatcherInvCache ==
    /\ watcher.pc = "inv1"
    /\ InvDeleteCache(watcher.zone)
    /\ watcher' = [watcher EXCEPT !.pc = "inv2"]
    /\ UNCHANGED <<now, constructed, unknown, repoVars, renVars, lk, admin, cmds>>
    /\ UNCHANGED extVars

WatcherInvStop ==
    /\ watcher.pc = "inv2"
    /\ InvStop(watcher.zone)
    /\ watcher' = [watcher EXCEPT !.pc =
                      IF InvStopBlocks(watcher.zone) THEN "blocked" ELSE "inv3"]
    /\ UNCHANGED <<now, constructed, unknown, repoVars, cacheVars, sr, lk, admin, cmds>>
    /\ UNCHANGED extVars

WatcherInvDelete ==
    /\ watcher.pc = "inv3"
    /\ InvDeleteRenewal(watcher.zone)
    /\ watcher' = [pc |-> "select", zone |-> ""]
    /\ UNCHANGED <<now, constructed, unknown, repoVars, cacheVars, sr, lk, admin, cmds>>
    /\ UNCHANGED extVars

\* -------------------------------------------------------------------------
\* Administrative commands (ExecuteCommand, line 508), issued one at a time.
\* SaveZone / DeleteZone: the storage call, then notifyAll to the manager's
\* watcher (the only registered one here).
\* -------------------------------------------------------------------------
CanCommand ==
    /\ constructed = "done"
    /\ admin.pc = "idle"
    /\ cmds < MaxCmds

AdminSaveZone(entry) ==
    /\ zoneStore' = StorageSet(zoneStore, entry)
    /\ firstProv' = FirstProvAfterSave(firstProv, entry)
    /\ admin' = [pc |-> "notify", zone |-> entry.zone, event |-> "UPDATE"]
    /\ cmds' = cmds + 1

\* uploadCert, lines 586-620: the entry of the dump file is saved as it is.
uploadCert(entry) ==
    /\ CanCommand
    /\ entry.zone # ""
    /\ entry.provider # ""
    /\ AdminSaveZone(entry)
    /\ UNCHANGED <<now, constructed, unknown, cacheVars, renVars, lk, watcher>>
    /\ UNCHANGED extVars

\* createSelfCert, lines 644-723
createSelfCert(zone) ==
    /\ CanCommand
    /\ FindZone(zone).zone = ""
    /\ AdminSaveZone(IssueSelfSignedCertificate(
           [zone |-> zone, provider |-> "self", email |-> "", cert |-> NoCert]))
    /\ UNCHANGED <<now, constructed, unknown, cacheVars, renVars, lk, watcher>>
    /\ UNCHANGED extVars

\* createCustomCert, lines 850-923: the files must parse.
createCustomCert(zone, cert) ==
    /\ CanCommand
    /\ FindZone(zone).zone = ""
    /\ cert.pem = "ok"
    /\ AdminSaveZone([zone |-> zone, provider |-> "custom", email |-> "",
                      cert |-> cert])
    /\ UNCHANGED <<now, constructed, unknown, cacheVars, renVars, lk, watcher>>
    /\ UNCHANGED extVars

\* renewCert, lines 968-991 -> RenewCertificate
renewCert(zone, acmeOk, life) ==
    /\ CanCommand
    /\ RenewCertificateErr(zone, FindZone(zone), acmeOk) = "nil"
    /\ AdminSaveZone(RenewedEntry(FindZone(zone), life))
    /\ UNCHANGED <<now, constructed, unknown, cacheVars, renVars, lk, watcher>>
    /\ UNCHANGED extVars

\* removeCert, lines 993-1017 -> DeleteZone
removeCert(zone) ==
    /\ CanCommand
    /\ FindZone(zone).zone # ""
    /\ zoneStore' = [zoneStore EXCEPT ![zone] = EmptyZone]
    /\ firstProv' = [firstProv EXCEPT ![zone] = ""]
    /\ admin' = [pc |-> "notify", zone |-> zone, event |-> "DELETE"]
    /\ cmds' = cmds + 1
    /\ UNCHANGED <<now, constructed, unknown, cacheVars, renVars, lk, watcher>>
    /\ UNCHANGED extVars

UploadEntries == [zone : Zones, provider : Providers, email : {""}, cert : UploadCerts]

\* -------------------------------------------------------------------------
\* CertificateManager.Destroy, lines 494-503: renewal.Range with a callback
\* that cancels the watch and stops the renewal it is given.  before holds
\* the zones registered when Range began, visited the zones the callback
\* was called for.
\* -------------------------------------------------------------------------
InitDestroy ==
    destroy = [pc |-> "idle", cancelled |-> FALSE, before |-> {}, visited |-> {}]

DestroyBegin ==
    /\ constructed = "done"
    /\ destroy.pc = "idle"
    /\ destroy' = [destroy EXCEPT !.pc = "range",
                                  !.before = {z \in Zones : renewal[z] # 0}]
    /\ UNCHANGED <<accounts, acmeMutex, legoLogger, crashed, op, ops>>
    /\ UNCHANGED <<mgrVars, watchVars, chainVars>>

\* lines 496-499: one call of the callback
DestroyVisit(zone) ==
    /\ destroy.pc = "range"
    /\ renewal[zone] # 0
    /\ zone \notin destroy.visited
    /\ ren' = certRenewalStop(ren, renewal[zone])
    /\ destroy' = [destroy EXCEPT !.cancelled = TRUE,
                                  !.visited = @ \cup {zone},
                                  !.pc = IF StopBlocks(ren, renewal[zone])
                                         THEN "blocked" ELSE "range"]
    /\ UNCHANGED <<now, constructed, unknown, repoVars, cacheVars, renewal, nextRen, sr, taskVars>>
    /\ UNCHANGED <<accounts, acmeMutex, legoLogger, crashed, op, ops>>
    /\ UNCHANGED <<watchVars, chainVars>>

\* Range returns when every zone that was registered throughout the call
\* has been visited; line 502.
DestroyReturn ==
    /\ destroy.pc = "range"
    /\ (destroy.before \cap {z \in Zones : renewal[z] # 0}) \subseteq destroy.visited
    /\ destroy' = [destroy EXCEPT !.pc = "done", !.before = {}, !.visited = {}]
    /\ UNCHANGED <<accounts, acmeMutex, legoLogger, crashed, op, ops>>
    /\ UNCHANGED <<mgrVars, watchVars, chainVars>>

\* Watch, repository lines 203-204 and 195-198: the watcher goroutine takes
\* ctx.Done() in its select, unregisters and closes its channel.
WatcherCancelled ==
    /\ watcher.pc = "select"
    /\ destroy.cancelled
    /\ watcher' = [pc |-> "off", zone |-> ""]
    /\ UNCHANGED <<now, constructed, unknown, repoVars, cacheVars, renVars, lk, admin, cmds>>
    /\ UNCHANGED extVars

\* notifyAll, repository lines 148-155, with no watcher registered: the
\* SaveZone of a renewal returns at once.
RenewNotifyNobody(r) ==
    /\ ren[r].pc = "notify"
    /\ watcher.pc = "off"
    /\ ren' = [ren EXCEPT ![r].pc = "inv1"]
    /\ UNCHANGED <<now, constructed, unknown, repoVars, cacheVars, renewal, nextRen, sr, taskVars>>
    /\ UNCHANGED extVars

\* The manager from construction to shutdown with no handshake and no
\* command arriving.
NextDestroy ==
    \/ Tick
    \/ PostConstructZone
    \/ PostConstructCache
    \/ \E i \in SRIds : SRLoadAndDelete(i) \/ SRLoadOrStore(i) \/ SRTimer(i)
    \/ \E r \in Rens : TimerFire(r) \/ RenewBegin(r)
    \/ \E r \in Rens, ok \in BOOLEAN, life \in AcmeLifetimes : RenewIssue(r, ok, life)
    \/ \E r \in Rens : RenewInvCache(r) \/ RenewInvStop(r) \/ RenewInvDelete(r)
    \/ \E r \in Rens : WatcherRecvRenew(r) \/ RenewNotifyNobody(r)
    \/ WatcherInvCache \/ WatcherInvStop \/ WatcherInvDelete \/ WatcherCancelled
    \/ DestroyBegin \/ DestroyReturn
    \/ \E z \in Zones : DestroyVisit(z)

\* =========================================================================
\* CertificateRepository: the watch registry (any number of watchers) and
\* DeleteZone -> notifyAll
\* =========================================================================
\* wc[h]: the goroutine of Watch for handle h.  got[n] counts the DELETE
\* events of the n-th DeleteZone its callback received; regAfter is the
\* number of DeleteZone calls that had returned when it registered (both
\* history fields).
NoWatch ==
    [pc |-> "none", cancelled |-> FALSE, closed |-> FALSE, regAfter |-> 0,
     got |-> [n \in Deletes |-> 0]]
\* dz: the caller of DeleteZone.  before is the registry at the call.
IdleDelete ==
    [pc |-> "idle", n |-> 0, err |-> "nil", before |-> {}, visited |-> {}, cur |-> 0]

InitWatch ==
    /\ watchNum = 0
    /\ watchMap = {}
    /\ wc = [h \in Handles |-> NoWatch]
    /\ dz = IdleDelete
    /\ returned = 0

\* Watch, lines 167-217: registerWatch (lines 157-161) and the goroutine.
Watch ==
    /\ watchNum < MaxWatch
    /\ watchNum' = watchNum + 1
    /\ watchMap' = watchMap \cup {watchNum + 1}
    /\ wc' = [wc EXCEPT ![watchNum + 1] =
                 [NoWatch EXCEPT !.pc = "select", !.regAfter = returned]]
    /\ UNCHANGED <<dz, returned, mgrVars, chainVars, svcVars>>

\* The cancel function Watch returned (or the parent context) is called.
cancel(h) ==
    /\ wc[h].pc # "none"
    /\ ~wc[h].cancelled
    /\ wc' = [wc EXCEPT ![h].cancelled = TRUE]
    /\ UNCHANGED <<watchNum, watchMap, dz, returned, mgrVars, chainVars, svcVars>>

\* line 203: case <-ctx.Done(): return
WatcherDone(h) ==
    /\ wc[h].pc = "select"
    /\ wc[h].cancelled
    /\ wc' = [wc EXCEPT ![h].pc = "unreg"]
    /\ UNCHANGED <<watchNum, watchMap, dz, returned, mgrVars, chainVars, svcVars>>

\* line 206 with line 151: the unbuffered channel hands the event of
\* notifyAll over to the goroutine that waits in select.
WatcherRecv(h) ==
    /\ wc[h].pc = "select"
    /\ dz.pc = "send"
    /\ dz.cur = h
    /\ wc' = [wc EXCEPT ![h].pc = "cb", ![h].got[dz.n] = @ + 1]
    /\ dz' = [dz EXCEPT !.pc = "range", !.visited = @ \cup {h}, !.cur = 0]
    /\ UNCHANGED <<watchNum, watchMap, returned, mgrVars, chainVars, svcVars>>

\* lines 207-209: the callback returns; false ends the goroutine.
callback(h, more) ==
    /\ wc[h].pc = "cb"
    /\ wc' = [wc EXCEPT ![h].pc = IF more THEN "select" ELSE "unreg"]
    /\ UNCHANGED <<watchNum, watchMap, dz, returned, mgrVars, chainVars, svcVars>>

\* An unregisterWatch that leaves the handle in the registry.
unregisterWatchKeeps(h) ==
    /\ wc[h].pc = "unreg"
    /\ wc' = [wc EXCEPT ![h].pc = "close"]
    /\ UNCHANGED <<watchNum, watchMap, dz, returned, mgrVars, chainVars, svcVars>>

\* lines 195-198 (deferred): unregisterWatch(handle), then close(ch)
unregisterWatch(h) ==
    /\ wc[h].pc = "unreg"
    /\ watchMap' = watchMap \ {h}
    /\ wc' = [wc EXCEPT ![h].pc = "close"]
    /\ UNCHANGED <<watchNum, dz, returned, mgrVars, chainVars, svcVars>>

closeChannel(h) ==
    /\ wc[h].pc = "close"
    /\ wc' = [wc EXCEPT ![h].pc = "gone", ![h].closed = TRUE]
    /\ UNCHANGED <<watchNum, watchMap, dz, returned, mgrVars, chainVars, svcVars>>

\* DeleteZone, lines 140-146: Storage.Remove; notifyAll only when it worked.
DeleteZone(ok) ==
    /\ dz.pc \in {"idle", "done"}
    /\ returned < MaxDeletes
    /\ IF ok
       THEN /\ dz' = [IdleDelete EXCEPT !.pc = "range", !.n = returned + 1,
                                        !.before = watchMap]
            /\ UNCHANGED returned
       ELSE /\ dz' = [IdleDelete EXCEPT !.pc = "done", !.n = returned + 1,
                                        !.err = "remove failed"]
            /\ returned' = returned + 1
    /\ UNCHANGED <<watchNum, watchMap, wc, mgrVars, chainVars, svcVars>>

\* A Range that returns after the first callback.
RangeCompleteFirst(d, map) == d.visited # {}

\* notifyAll, lines 148-155: sync.Map.Range has called back for every key
\* that was in the map during the whole call (a key stored meanwhile may or
\* may not be visited).
RangeComplete(d, map) == (d.before \cap map) \subseteq d.visited

\* line 149-150: Range loads the next entry, no key twice.
notifyPick(h) ==
    /\ dz.pc = "range"
    /\ h \in watchMap \ dz.visited
    /\ dz' = [dz EXCEPT !.pc = "send", !.cur = h]
    /\ UNCHANGED <<watchNum, watchMap, wc, returned, mgrVars, chainVars, svcVars>>

\* line 151 on a channel the watcher goroutine has closed: the send panics
\* in the caller of DeleteZone.
notifySendClosed ==
    /\ dz.pc = "send"
    /\ wc[dz.cur].closed
    /\ dz' = [dz EXCEPT !.pc = "panic"]
    /\ UNCHANGED <<watchNum, watchMap, wc, returned, mgrVars, chainVars, svcVars>>

\* Range is through; DeleteZone returns nil.
notifyReturn ==
    /\ dz.pc = "range"
    /\ RangeComplete(dz, watchMap)
    /\ dz' = [dz EXCEPT !.pc = "done"]
    /\ returned' = returned + 1
    /\ UNCHANGED <<watchNum, watchMap, wc, mgrVars, chainVars, svcVars>>

NextWatch ==
    \/ Watch
    \/ \E h \in Handles : cancel(h) \/ WatcherDone(h) \/ WatcherRecv(h)
    \/ \E h \in Handles, more \in BOOLEAN : callback(h, more)
    \/ \E h \in Handles : unregisterWatch(h) \/ closeChannel(h)
    \/ \E ok \in BOOLEAN : DeleteZone(ok)
    \/ \E h \in Handles : notifyPick(h)
    \/ notifySendClosed
    \/ notifyReturn

\* =========================================================================
\* CertificateIssuerService and the self signer commands
\* =========================================================================
\* Byte strings are sequences of strings.  A private key is named by a
\* string; its public key carries the same name.
SignerNames == {"ca1", "ca2"}
KeyNames == <<"k1", "k2", "k3", "k4">>
Public(key) == key

\* encoding/pem
pemEncode(type, der) == <<"-----BEGIN", type>> \o der \o <<"-----END">>
pemDecode(contents) ==
    IF Len(contents) >= 3 /\ contents[1] = "-----BEGIN"
                          /\ contents[Len(contents)] = "-----END"
    THEN [ok |-> TRUE, type |-> contents[2],
          bytes |-> SubSeq(contents, 3, Len(contents) - 1)]
    ELSE [ok |-> FALSE, type |-> "", bytes |-> <<>>]

\* x509.MarshalPKCS1PrivateKey / ParsePKCS1PrivateKey
MarshalPKCS1PrivateKey(key) == <<"pkcs1", key>>
ParsePKCS1PrivateKey(der) ==
    IF Len(der) = 2 /\ der[1] = "pkcs1"
    THEN [err |-> "nil", key |-> der[2]]
    ELSE [err |-> "x509: failed to parse private key", key |-> ""]

\* x509.CreateCertificate / ParseCertificate: subject, subject public key
\* and the key that signed.
NoX509 == [cn |-> "", pub |-> "", signer |-> ""]
CreateCertificate(cn, pub, signer) == <<"x509", cn, pub, signer>>
ParseCertificate(der) ==
    IF Len(der) = 4 /\ der[1] = "x509"
    THEN [err |-> "nil", cert |-> [cn |-> der[2], pub |-> der[3], signer |-> der[4]]]
    ELSE [err |-> "x509: malformed certificate", cert |-> NoX509]

\* readPrivateKey, lines 355-363
readPrivateKey(keyContents) ==
    LET block == pemDecode(keyContents)
    IN  IF ~block.ok THEN [err |-> "no PEM found", key |-> ""]
        ELSE IF block.type \notin {"RSA PRIVATE KEY", "ECDSA PRIVATE KEY"}
        THEN [err |-> "incorrect PEM type", key |-> ""]
        ELSE ParsePKCS1PrivateKey(block.bytes)

\* readCert, lines 365-373
readCert(certContents) ==
    LET block == pemDecode(certContents)
    IN  IF ~block.ok THEN [err |-> "no PEM found", cert |-> NoX509]
        ELSE IF block.type # "CERTIFICATE"
        THEN [err |-> "incorrect PEM type", cert |-> NoX509]
        ELSE ParseCertificate(block.bytes)

\* publicKeysEqual, lines 375-385
publicKeysEqual(a, b) == a = b

\* makeKey, lines 387-405
makeKey(key) == pemEncode("RSA PRIVATE KEY", MarshalPKCS1PrivateKey(key))

\* An issuer is the sequence of issuedCertificates from itself up to the
\* root; Parent drops the first.
issuedCertificate(certContents, keyContents) ==
    [certContents |-> certContents, keyContents |-> keyContents,
     x509Cert |-> readCert(certContents).cert, key |-> readPrivateKey(keyContents).key]

\* An issuer that reports no parent.
ParentNone(issuer) == <<>>

\* Parent, lines 175-177
Parent(issuer) == Tail(issuer)

\* CreateIssuer, lines 96-128: a self signed root with the fresh key.
CreateIssuer(cn, key) ==
    <<issuedCertificate(
          pemEncode("CERTIFICATE", CreateCertificate(cn, Public(key), key)),
          makeKey(key))>>

\* IssueInterCert, lines 183-215: an intermediate signed by the issuer.
IssueInterCert(issuer, cn, key) ==
    <<issuedCertificate(
          pemEncode("CERTIFICATE", CreateCertificate(cn, Public(key), issuer[1].key)),
          makeKey(key))>> \o issuer

\* A SelfSigner message is the sequence of its levels: the signer, then its
\* Issuer, and so on.  SaveSelfSigner / FindSelfSigner store it in the wire
\* form of protobuf: the non-empty fields in tag order, the nested Issuer
\* message last.
Level(name, certificate, privateKey) ==
    [name |-> name, certificate |-> certificate, privateKey |-> privateKey]
WireField(tag, val) == [tag |-> tag, val |-> val]
RECURSIVE Marshal(_)
Marshal(signer) ==
    IF signer = <<>> THEN <<>>
    ELSE LET l == Head(signer)
         IN  (IF l.name # "" THEN <<WireField(1, <<l.name>>)>> ELSE <<>>)
             \o (IF l.certificate # <<>> THEN <<WireField(2, l.certificate)>> ELSE <<>>)
             \o (IF l.privateKey # <<>> THEN <<WireField(3, l.privateKey)>> ELSE <<>>)
             \o (IF Tail(signer) # <<>>
                 THEN <<WireField(4, <<>>)>> \o Marshal(Tail(signer)) ELSE <<>>)
RECURSIVE UnmarshalInto(_, _)
UnmarshalInto(l, wire) ==
    IF wire = <<>> THEN <<l>>
    ELSE LET f == Head(wire)
         IN  IF f.tag = 1 THEN UnmarshalInto([l EXCEPT !.name = f.val[1]], Tail(wire))
             ELSE IF f.tag = 2 THEN UnmarshalInto([l EXCEPT !.certificate = f.val], Tail(wire))
             ELSE IF f.tag = 3 THEN UnmarshalInto([l EXCEPT !.privateKey = f.val], Tail(wire))
             ELSE <<l>> \o UnmarshalInto(Level("", <<>>, <<>>), Tail(wire))
Unmarshal(wire) == UnmarshalInto(Level("", <<>>, <<>>), wire)

\* FindSelfSigner, lines 69-73: a missing key leaves the message empty.
FindSelfSigner(name) == Unmarshal(selfStore[name])

\* CreateSelfSigner, lines 211-226: one nested SelfSigner per issuer of the
\* chain, the name on the outermost.
RECURSIVE IssuerEntries(_)
IssuerEntries(issuer) ==
    <<Level("", issuer[1].certContents, issuer[1].keyContents)>>
        \o (IF Parent(issuer) = <<>> THEN <<>> ELSE IssuerEntries(Parent(issuer)))
SelfSignerEntry(cn, issuer) ==
    LET e == IssuerEntries(issuer) IN <<[e[1] EXCEPT !.name = cn]>> \o Tail(e)

\* One level of a SelfSigner reads and its keys match.
LevelOk(l) ==
    /\ readPrivateKey(l.privateKey).err = "nil"
    /\ readCert(l.certificate).err = "nil"
    /\ publicKeysEqual(Public(readPrivateKey(l.privateKey).key),
                       readCert(l.certificate).cert.pub)

\* A loader that does not look at the Issuer of the signer.
loadIssuerTopOnly(signer) ==
    IF LevelOk(signer[1])
    THEN [err |-> "nil",
          issuer |-> <<issuedCertificate(signer[1].certificate, signer[1].privateKey)>>]
    ELSE [err |-> "rejected", issuer |-> <<>>]

\* LoadIssuer -> loadIssuerRecursive, lines 130-173: the error, and the
\* issuer (empty with an error).
RECURSIVE loadIssuerRecursive(_)
loadIssuerRecursive(signer) ==
    LET l == signer[1]
        key == readPrivateKey(l.privateKey)
        x509Cert == readCert(l.certificate)
        self == <<issuedCertificate(l.certificate, l.privateKey)>>
        fail(e) == [err |-> e, issuer |-> <<>>]
    IN  IF key.err # "nil" THEN fail("reading root private key")
        ELSE IF x509Cert.err # "nil" THEN fail("reading root x509Cert")
        ELSE IF ~publicKeysEqual(Public(key.key), x509Cert.cert.pub)
        THEN fail("public key in x509Cert doesn't match private key")
        ELSE IF Tail(signer) # <<>>
        THEN LET parent == loadIssuerRecursive(Tail(signer))
             IN  IF parent.err # "nil" THEN fail(parent.err)
                 ELSE [err |-> "nil", issuer |-> self \o parent.issuer]
        ELSE [err |-> "nil", issuer |-> self]
LoadIssuer(signer) == loadIssuerRecursive(signer)

\* lastLoad: the last call of LoadIssuer: by which operation, on which
\* message, with which result; expect is the issuer CreateSelfSigner built
\* for a signer that was saved by it (history variables, as is built).
NoLoad == [op |-> "", signer |-> <<>>, res |-> [err |-> "nil", issuer |-> <<>>],
           expect |-> <<>>, saved |-> FALSE]

\* The certificate template being made: which make function, the serial
\* it drew (as the SerialWidth bytes of the number, big-endian), the bytes
\* its common name ends with.
NoIssuing == [pc |-> "idle", kind |-> "", serial |-> <<>>, cn |-> <<>>]

\* The autoupdate service after doStart: no freeze handle, no trigger, the
\* foreground loop in its select, no job running.  pc is the position of
\* each goroutine that can run triggerUpdate; timers are the pending
\* time.AfterFunc callbacks, each by the timestamp it captured.
UpdJobs == {"job1", "job2"}
UpdThreads == {"loop", "timer"} \cup UpdJobs
InitAutoupdate ==
    [freezeNextId |-> 0, freezeMap |-> {}, held |-> [j \in UpdJobs |-> 0],
     triggerAfterUnfreeze |-> FALSE, triggerUpdateTimestamp |-> 0,
     timers |-> {}, clock |-> 0, events |-> 0, shutdown |-> FALSE,
     pc |-> [t \in UpdThreads |-> IF t = "loop" THEN "select" ELSE "idle"]]

InitChain ==
    /\ selfStore = [n \in SignerNames |-> <<>>]
    /\ nextKey = 1
    /\ built = [n \in SignerNames |-> <<>>]
    /\ lastLoad = NoLoad
    /\ issuing = NoIssuing
    /\ autoupdate = InitAutoupdate

\* The issuer CreateSelfSigner builds from fresh keys, lines 203-209.
NewIssuer(cn, withInter) ==
    IF withInter
    THEN IssueInterCert(CreateIssuer(cn, KeyNames[nextKey]), cn, KeyNames[nextKey + 1])
    ELSE CreateIssuer(cn, KeyNames[nextKey])
KeysUsed(withInter) == IF withInter THEN 2 ELSE 1

\* CreateSelfSigner(cn, withInter), lines 196-227
CreateSelfSigner(cn, withInter) ==
    /\ nextKey + KeysUsed(withInter) - 1 <= MaxKeys
    /\ selfStore' = [selfStore EXCEPT ![cn] =
                        Marshal(SelfSignerEntry(cn, NewIssuer(cn, withInter)))]
    /\ built' = [built EXCEPT ![cn] = NewIssuer(cn, withInter)]
    /\ nextKey' = nextKey + KeysUsed(withInter)
    /\ UNCHANGED <<lastLoad, issuing, autoupdate, mgrVars, watchVars, svcVars>>

\* getOrCreateSelfIssuer(cn), lines 169-193: find the signer, create it
\* when there is none, load it.
getOrCreateSelfIssuer(cn) ==
    /\ (FindSelfSigner(cn)[1].name = "") => nextKey <= MaxKeys
    /\ LET create == FindSelfSigner(cn)[1].name = ""
           wire == IF create
                   THEN Marshal(SelfSignerEntry(cn, NewIssuer(cn, FALSE)))
                   ELSE selfStore[cn]
           made == IF create THEN NewIssuer(cn, FALSE) ELSE built[cn]
       IN  /\ selfStore' = [selfStore EXCEPT ![cn] = wire]
           /\ built' = [built EXCEPT ![cn] = made]
           /\ nextKey' = IF create THEN nextKey + 1 ELSE nextKey
           /\ lastLoad' = [op |-> "load", signer |-> Unmarshal(wire),
                           res |-> LoadIssuer(Unmarshal(wire)), expect |-> made,
                           saved |-> FALSE]
    /\ UNCHANGED <<issuing, autoupdate, mgrVars, watchVars, svcVars>>

\* selfUpload, lines 1242-1273: the signer of the dump file is saved when
\* it has a name and LoadIssuer accepts it.
selfUpload(signer) ==
    /\ signer[1].name # ""
    /\ LET res == LoadIssuer(signer)
           name == signer[1].name
       IN  /\ lastLoad' = [op |-> "upload", signer |-> signer, res |-> res,
                           expect |-> <<>>, saved |-> (res.err = "nil")]
           /\ IF res.err = "nil"
              THEN /\ selfStore' = [selfStore EXCEPT ![name] = Marshal(signer)]
                   /\ built' = [built EXCEPT ![name] = <<>>]
              ELSE UNCHANGED <<selfStore, built>>
    /\ UNCHANGED <<nextKey, issuing, autoupdate, mgrVars, watchVars, svcVars>>

\* The levels a dump file may hold: a matching pair, a certificate of
\* another key, a key file without PEM armor, a certificate request in
\* place of the certificate, an EC key under the accepted ECDSA header.
UploadLevels ==
    { Level("", pemEncode("CERTIFICATE", CreateCertificate("up", Public("u1"), "u1")),
            makeKey("u1")),
      Level("", pemEncode("CERTIFICATE", CreateCertificate("up", Public("u2"), "u2")),
            makeKey("u1")),
      Level("", pemEncode("CERTIFICATE", CreateCertificate("up", Public("u1"), "u1")),
            <<"junk">>),
      Level("", pemEncode("CERTIFICATE REQUEST", CreateCertificate("up", Public("u1"), "u1")),
            makeKey("u1")),
      Level("", pemEncode("CERTIFICATE", CreateCertificate("up", Public("u1"), "u1")),
            pemEncode("ECDSA PRIVATE KEY", <<"sec1", "u1">>)) }
UploadSigners ==
    { <<[l EXCEPT !.name = n]>> \o rest :
        l \in UploadLevels, n \in SignerNames,
        rest \in UNION { [1..d -> UploadLevels] : d \in 0..(MaxDepth - 1) } }

NextChain ==
    \/ \E cn \in SignerNames, withInter \in BOOLEAN : CreateSelfSigner(cn, withInter)
    \/ \E cn \in SignerNames : getOrCreateSelfIssuer(cn)
    \/ \E signer \in UploadSigners : selfUpload(signer)

\* =========================================================================
\* CertificateService: the command surface (ExecuteCommand) and the ACME
\* call path, run by concurrent callers
\* =========================================================================
Tasks == 1..MaxTasks
Emails == {"ops@a.com", "admin@a.com"}
NoKey == <<>>

\* util.ToZone: the zone dns01.FindZoneByFqdn finds for the name, "" when
\* the lookup gives an error.
ToZone(domain) == IF domain \in {"a.com", "www.a.com"} THEN "a.com" ELSE ""

\* ListZones(prefix): the stored key starts with the prefix.
HasPrefix(s, p) == p = "" \/ p = s \/ (p = "a." /\ s = "a.com")

\* A provider map that has every name.
providerKnownAny(name) == TRUE

\* providerMap, filled by PostConstruct from the DNS provider beans.
providerKnown(name) == name = "route53"

\* The dump files `upload` and `acme upload` may be given.
ZoneFiles ==
    "a-acme.json" :> [zone |-> "a.com", provider |-> "acme", email |-> "",
                      cert |-> [nb |-> 0, na |-> 0, pem |-> "ok"]]
    @@ "a-custom.json" :> [zone |-> "a.com", provider |-> "custom", email |-> "",
                           cert |-> [nb |-> 0, na |-> 0, pem |-> "ok"]]
    @@ "nozone.json" :> EmptyZone
AccountFiles ==
    "acct.json" :> [email |-> "ops@a.com", key |-> <<"uploaded">>]
    @@ "acct-badkey.json" :> [email |-> "ops@a.com", key |-> <<"junk">>]
    @@ "acct-noemail.json" :> [email |-> "", key |-> <<"uploaded">>]

\* What a handler gives back and leaves behind: the output and the error,
\* the zone store and the account store after it, the watch event it
\* emitted, and (acme) the entry it goes on to issue through doAcmeCall with
\* the warnings collected so far.
Same ==
    [out |-> {}, err |-> "nil", store |-> zoneStore, accts |-> accounts,
     event |-> "", acme |-> EmptyZone, warn |-> {}]
Fail(e) == [Same EXCEPT !.err = e]
Say(o) == [Same EXCEPT !.out = {o}]
\* SaveZone(entry): Storage.Set and notifyAll(zone, "UPDATE")
SaveZone(entry, o) ==
    [Same EXCEPT !.store = StorageSet(zoneStore, entry), !.event = "UPDATE", !.out = o]

\* An argument check that asks for one argument whatever the handler needs.
MissingArgsBelowOne(args, n) == Len(args) < 1

\* The argument check every handler begins with.
MissingArgs(args, n) == Len(args) < n

\* A create command that never finds the zone taken.
zoneExistsNever(exist) == FALSE

\* The existence check of the create commands, lines 668, 765, 876.
zoneExists(exist) == exist.zone # ""

\* CreateAcmeAccount(email): a fresh RSA key pair saved under the email.
\* The key is named after the operation that generated it.
CreateAcmeAccount(accts, email) == [accts EXCEPT ![email] = <<"generated", ops + 1>>]

\* GetOrCreateAcmeUser(email): the account store afterwards.
GetOrCreateAcmeUser(accts, email) ==
    IF accts[email] = NoKey THEN CreateAcmeAccount(accts, email) ELSE accts

\* IssueAcmeCertificate, lines 312-354, for an entry with domains and a DNS
\* provider: the steps before doAcmeCall.  chal: RegisterChallenge succeeds.
IssueAcmeBegin(entry, chal, warn) ==
    LET email == IF entry.email = "" THEN "admin@a.com" ELSE entry.email
        user == [Same EXCEPT !.accts = GetOrCreateAcmeUser(accounts, email)]
    IN  IF entry.zone = "localhost"
        THEN Fail("zone name component count invalid")
        ELSE IF ~chal
        THEN [user EXCEPT !.err = "DNS provider does not have credentials"]
        ELSE [user EXCEPT !.acme = [entry EXCEPT !.email = email], !.warn = warn]

\* A RenewCertificate that reissues every zone that is not acme with the
\* self signer.
RenewCertificateAnyProvider(zone, chal) ==
    LET entry == FindZone(zone)
    IN  IF entry.zone # zone THEN Fail("certificate zone is not found")
        ELSE IF entry.provider = "acme" THEN IssueAcmeBegin(entry, chal, {})
        ELSE SaveZone(IssueSelfSignedCertificate(entry), {})

\* RenewCertificate(zone), lines 229-259, up to the ACME call
RenewCertificate(zone, chal) ==
    LET entry == FindZone(zone)
    IN  IF entry.zone # zone THEN Fail("certificate zone is not found")
        ELSE IF entry.provider = "self"
        THEN SaveZone(IssueSelfSignedCertificate(entry), {})
        ELSE IF entry.provider = "acme" THEN IssueAcmeBegin(entry, chal, {})
        ELSE IF entry.provider = "custom" THEN Fail("can not issue custom certificates")
        ELSE Fail("unknown cert provider")

\* A list that writes its header and no zone.
listCertsHeaderOnly(args) == Say("Zone,Domains,Provider,Options,Issued")

\* listCerts, lines 544-568: the header and one line per zone
listCerts(args) ==
    LET prefix == IF Len(args) > 0 THEN args[1] ELSE ""
    IN  [Same EXCEPT !.out = {"Zone,Domains,Provider,Options,Issued"} \cup
             {z \in Zones : zoneStore[z].zone # "" /\ HasPrefix(z, prefix)}]

\* dumpCert, lines 570-584
dumpCert(args) ==
    IF MissingArgs(args, 1) THEN Say("Usage: cert dump zone") ELSE Say("json")

\* uploadCert, lines 586-620
uploadCertCmd(args) ==
    IF MissingArgs(args, 1) THEN Say("Usage: cert upload dump_file.json")
    ELSE IF args[1] \notin DOMAIN ZoneFiles THEN Fail("open: no such file")
    ELSE IF ZoneFiles[args[1]].zone = "" THEN Fail("empty zone in entry")
    ELSE IF ZoneFiles[args[1]].provider = "" THEN Fail("empty certificate provider in entry")
    ELSE SaveZone(ZoneFiles[args[1]], {"OK"})

\* createSelfCert, lines 644-723, with the default self signer
createSelfCertCmd(args) ==
    IF MissingArgs(args, 1) THEN Say("Usage: cert create self domain [self-signer]")
    ELSE LET zone == ToZone(args[1])
         IN  IF zone = "" THEN Fail("could not find the start of authority")
             ELSE IF zoneExists(FindZone(zone)) THEN Fail("zone already exist")
             ELSE SaveZone(IssueSelfSignedCertificate(
                               [zone |-> zone, provider |-> "self", email |-> "",
                                cert |-> NoCert]),
                           {"Created self-signed certificate"})

\* createAcmeCert, lines 725-804, up to the ACME call.  whois: the provider
\* delectProviderFromWhois finds ("" for none); tok: prov.NewClient succeeds.
createAcmeCert(args, tok, chal, whois) ==
    IF MissingArgs(args, 2) THEN Say("Usage: cert create acme domain email [dns_provider]")
    ELSE IF Len(args) < 2 THEN Fail("panic: index out of range")
    ELSE LET email == args[2]
             zone == ToZone(args[1])
             dnsProvider == IF Len(args) > 2 THEN args[3] ELSE whois
             warning == IF accounts[email] = NoKey
                        THEN {"Warning: ACME account was not found"} ELSE {}
             ask == IF tok THEN {} ELSE {"Warning: token for DNS provider not found"}
         IN  IF zone = "" THEN Fail("could not find the start of authority")
             ELSE IF zoneExists(FindZone(zone)) THEN Fail("zone already exist")
             ELSE IF dnsProvider = "" THEN Fail("detect provider from whois")
             ELSE IF ~providerKnown(dnsProvider)
             THEN Fail("dns provider not found in supported list")
             ELSE IssueAcmeBegin([zone |-> zone, provider |-> "acme", email |-> email,
                                  cert |-> NoCert], chal, ask \cup warning)

\* createCustomCert, lines 850-923: the three files are read and parsed
createCustomCertCmd(args) ==
    IF MissingArgs(args, 4)
    THEN Say("Usage: cert create custom domain cert_file key_file issuer_cert_file")
    ELSE IF Len(args) < 4 THEN Fail("panic: index out of range")
    ELSE LET zone == ToZone(args[1])
         IN  IF zone = "" THEN Fail("could not find the start of authority")
             ELSE IF zoneExists(FindZone(zone)) THEN Fail("zone already exist")
             ELSE IF args[2] # "cert.pem" THEN Fail("read file")
             ELSE SaveZone([zone |-> zone, provider |-> "custom", email |-> "",
                            cert |-> [nb |-> 0, na |-> 0, pem |-> "ok"]],
                           {"Uploaded certificate"})

\* createCert, lines 623-642
createCert(args, tok, chal, whois) ==
    IF MissingArgs(args, 1) THEN Say("Usage: cert create cert_provider [self,acme,custom]")
    ELSE IF args[1] = "self" THEN createSelfCertCmd(Tail(args))
    ELSE IF args[1] = "acme" THEN createAcmeCert(Tail(args), tok, chal, whois)
    ELSE IF args[1] = "custom" THEN createCustomCertCmd(Tail(args))
    ELSE Same

\* renewCert, lines 968-991, up to the ACME call
renewCertCmd(args, chal) ==
    IF MissingArgs(args, 1) THEN Say("Usage: cert renew zone")
    ELSE LET r == RenewCertificate(args[1], chal)
         IN  IF r.err = "nil" /\ r.acme = EmptyZone
             THEN [r EXCEPT !.out = {"Succesfull renewal of certificate"}]
             ELSE r

\* removeCert, lines 993-1017
removeCertCmd(args) ==
    IF MissingArgs(args, 1) THEN Say("Usage: cert remove zone")
    ELSE IF args[1] \notin Zones \/ FindZone(args[1]).zone = "" THEN Fail("zone not found")
    ELSE [Same EXCEPT !.store = [zoneStore EXCEPT ![args[1]] = EmptyZone],
                      !.event = "DELETE",
                      !.out = {"Succesfull removed certificate"}]

\* acmeCommand, lines 1096-1192: list, create, upload, dump
acmeCommand(args) ==
    IF MissingArgs(args, 1) THEN Say("Usage: cert acme [list create upload dump]")
    ELSE IF args[1] = "list"
    THEN [Same EXCEPT !.out = {"Email"} \cup {e \in Emails : accounts[e] # NoKey}]
    ELSE IF args[1] = "create"
    THEN (IF MissingArgs(Tail(args), 1) THEN Say("Usage: cert acme create email")
          ELSE [Same EXCEPT !.accts = CreateAcmeAccount(accounts, args[2]),
                            !.out = {"Created ACME Account"}])
    ELSE IF args[1] = "upload"
    THEN (IF MissingArgs(Tail(args), 1) THEN Say("Usage: cert acme upload dump_file.json")
          ELSE IF args[2] \notin DOMAIN AccountFiles THEN Fail("unexpected end of JSON input")
          ELSE IF AccountFiles[args[2]].email = "" THEN Fail("empty email in account")
          ELSE IF AccountFiles[args[2]].key # <<"uploaded">> THEN Fail("parse acme account")
          ELSE [Same EXCEPT !.accts = [accounts EXCEPT ![AccountFiles[args[2]].email] =
                                           AccountFiles[args[2]].key],
                            !.out = {"OK"}])
    ELSE IF args[1] = "dump"
    THEN (IF MissingArgs(Tail(args), 1) THEN Say("Usage: cert acme dump email")
          ELSE IF accounts[args[2]] = NoKey THEN Fail("acme account not found")
          ELSE Say("json"))
    ELSE Fail("unknown acme command")

\* selfCommand (lines 1194-1291), clientCert (1019-1041) and the manager's
\* ExecuteCommand (dyndns_service.go 680-688): their argument checks.  With
\* their arguments self create, upload and dump are CreateSelfSigner,
\* selfUpload and FindSelfSigner above.
selfCommand(args) ==
    IF MissingArgs(args, 1) THEN Say("Usage: cert self [list create upload dump]")
    ELSE IF args[1] = "create" /\ MissingArgs(Tail(args), 1) THEN Say("Usage: cert self create cn")
    ELSE IF args[1] = "upload" /\ MissingArgs(Tail(args), 1)
    THEN Say("Usage: cert self upload dump_file_json")
    ELSE IF args[1] = "dump" /\ MissingArgs(Tail(args), 1) THEN Say("Usage: cert self dump cn")
    ELSE IF args[1] = "list" THEN Say("Name")
    ELSE IF args[1] \in {"create", "upload", "dump"} THEN Same
    ELSE Fail("unknown self command")
clientCert(args) ==
    IF MissingArgs(args, 1) THEN Say("Usage: cert client [install]")
    ELSE IF args[1] # "install" THEN Fail("unknown cert client command")
    ELSE IF MissingArgs(Tail(args), 1) THEN Say("Usage: cert client install zone")
    ELSE Fail("zone not found")
managerCommand(args) ==
    IF Len(args) = 0 THEN Say("Usage: cert manager [list active renewal unknown]")
    ELSE Fail("unknown cert manager command")

\* ExecuteCommand, lines 508-542 (and the manager's for "manager")
ExecuteCommand(cmd, args, tok, chal, whois) ==
    IF cmd = "list" THEN listCerts(args)
    ELSE IF cmd = "dump" THEN dumpCert(args)
    ELSE IF cmd = "upload" THEN uploadCertCmd(args)
    ELSE IF cmd = "create" THEN createCert(args, tok, chal, whois)
    ELSE IF cmd = "renew" THEN renewCertCmd(args, chal)
    ELSE IF cmd = "remove" THEN removeCertCmd(args)
    ELSE IF cmd = "client" THEN clientCert(args)
    ELSE IF cmd = "acme" THEN acmeCommand(args)
    ELSE IF cmd = "self" THEN selfCommand(args)
    ELSE IF cmd = "manager" THEN managerCommand(args)
    ELSE Fail("unknown command")

\* -------------------------------------------------------------------------
\* The callers.  op[t] is what caller t runs: a command (kind "cmd") or the
\* RenewCertificate of a renewal timer (kind "timer", certRenewal.renew).
\* seq numbers the calls in the order they began (history).
\* -------------------------------------------------------------------------
NoOp ==
    [pc |-> "idle", kind |-> "", cmd |-> "", args |-> <<>>, entry |-> EmptyZone,
     warn |-> {}, saveLogger |-> 0, cbErr |-> "nil", certificates |-> NoCert,
     err |-> "nil", out |-> {}, event |-> "", seq |-> 0]

InitSvc ==
    /\ accounts = [e \in Emails |-> NoKey]
    /\ acmeMutex = 0
    /\ legoLogger = 0
    /\ crashed = FALSE
    /\ op = [t \in Tasks |-> NoOp]
    /\ ops = 0

\* The command lines callers issue: every command without its arguments,
\* and the zone and account commands with them.
CommandLines ==
    {<<c, <<>>>> : c \in {"list", "dump", "upload", "create", "renew", "remove",
                          "client", "acme", "self", "manager", "status"}}
    \cup {<<"create", <<p>>>> : p \in {"self", "acme", "custom", "other"}}
    \cup {<<"create", <<"acme", "a.com">>>>,
          <<"create", <<"custom", "a.com">>>>,
          <<"create", <<"custom", "a.com", "cert.pem">>>>,
          <<"create", <<"custom", "a.com", "cert.pem", "key.pem">>>>,
          <<"client", <<"install">>>>, <<"client", <<"remove">>>>,
          <<"manager", <<"status">>>>, <<"list", <<"a.">>>>, <<"list", <<"b.">>>>}
    \cup {<<c, <<s>>>> : c \in {"acme", "self"}, s \in {"list", "create", "upload", "dump"}}
    \cup {<<"create", <<"self", d>>>> : d \in {"a.com", "www.a.com", "nx"}}
    \cup {<<"create", <<"acme", d, "ops@a.com">>>> : d \in {"a.com", "nx"}}
    \cup {<<"create", <<"acme", "www.a.com", "ops@a.com", p>>>> : p \in {"route53", "nodns"}}
    \cup {<<"create", <<"custom", "a.com", f, "key.pem", "issuer.pem">>>> :
             f \in {"cert.pem", "missing.pem"}}
    \cup {<<c, <<z>>>> : c \in {"dump", "renew", "remove"}, z \in Zones}
    \cup {<<"upload", <<f>>>> : f \in DOMAIN ZoneFiles \cup {"missing.json"}}
    \cup {<<"acme", <<"upload", f>>>> : f \in DOMAIN AccountFiles}
    \cup {<<"acme", <<s, "ops@a.com">>>> : s \in {"create", "dump"}}

\* The provider kind of the first save of every record's current life.
FirstProvOf(fp, store) ==
    [z \in Zones |-> IF store[z].zone = "" THEN ""
                     ELSE IF fp[z] = "" THEN store[z].provider ELSE fp[z]]

\* Caller t runs a handler up to its return or up to doAcmeCall.
Begin(t, kind, cmd, args, r) ==
    /\ op[t].pc \in {"idle", "done", "panic"}
    /\ ops < MaxOps
    /\ zoneStore' = r.store
    /\ firstProv' = FirstProvOf(firstProv, r.store)
    /\ accounts' = r.accts
    /\ op' = [op EXCEPT ![t] =
                 IF r.acme # EmptyZone
                 THEN [NoOp EXCEPT !.pc = "lock", !.kind = kind, !.cmd = cmd,
                                   !.args = args, !.entry = r.acme, !.warn = r.warn,
                                   !.seq = ops + 1]
                 ELSE [NoOp EXCEPT !.pc = "done", !.kind = kind, !.cmd = cmd,
                                   !.args = args, !.err = r.err, !.out = r.out,
                                   !.event = r.event, !.seq = ops + 1]]
    /\ ops' = ops + 1
    /\ UNCHANGED <<acmeMutex, legoLogger, crashed, destroy>>
    /\ UNCHANGED <<now, constructed, unknown, cacheVars, renVars, taskVars, watchVars, chainVars>>

Command(t, line, tok, chal, whois) ==
    /\ ~crashed
    /\ Begin(t, "cmd", line[1], line[2], ExecuteCommand(line[1], line[2], tok, chal, whois))

\* certRenewal.renew, line 650
TimerRenew(t, zone, chal) ==
    /\ ~crashed
    /\ zoneStore[zone].zone # ""
    /\ Begin(t, "timer", "", <<zone>>, RenewCertificate(zone, chal))

\* A mutex that is always free.
CanLockAlways(m) == TRUE

\* acmeMutex.Lock() returns when the mutex is free.
CanLock(m) == m = 0

\* doAcmeCall, lines 493-497: Lock, save the logger, install the buffer
AcmeEnter(t) ==
    /\ ~crashed
    /\ op[t].pc = "lock"
    /\ CanLock(acmeMutex)
    /\ acmeMutex' = t
    /\ legoLogger' = t
    /\ op' = [op EXCEPT ![t].pc = "cb", ![t].saveLogger = legoLogger]
    /\ UNCHANGED <<accounts, crashed, ops, destroy>>
    /\ UNCHANGED <<mgrVars, watchVars, chainVars>>

\* line 499, the callback (lines 377-390 and 412-425): QueryRegistration or
\* Register, then Renew or Obtain.  Its `reg, err :=` declares an err of its
\* own (cbErr); certificates is the caller's variable.
AcmeOutcomes == {"nil", "register failed", "obtain failed"}
AcmeCall(t, outcome, life) ==
    /\ ~crashed
    /\ op[t].pc = "cb"
    /\ op' = [op EXCEPT ![t].pc = "restore",
                        ![t].cbErr = outcome,
                        ![t].certificates =
                            IF outcome = "nil"
                            THEN IssueAcmeCertificate(op[t].entry, life).cert
                            ELSE NoCert]
    /\ UNCHANGED <<accounts, acmeMutex, legoLogger, crashed, ops, destroy>>
    /\ UNCHANGED <<mgrVars, watchVars, chainVars>>

\* lines 501-502: restore the logger, Unlock
AcmeLeave(t) ==
    /\ ~crashed
    /\ op[t].pc = "restore"
    /\ legoLogger' = op[t].saveLogger
    /\ acmeMutex' = 0
    /\ op' = [op EXCEPT ![t].pc = "after", ![t].saveLogger = 0]
    /\ UNCHANGED <<accounts, crashed, ops, destroy>>
    /\ UNCHANGED <<mgrVars, watchVars, chainVars>>

\* lines 392-446 and the caller's SaveZone (lines 252, 811): the err that is
\* tested is IssueAcmeCertificate's own, which the callback never assigned;
\* reading certificates.Domain of a nil resource panics.  A panic in the
\* timer's goroutine ends the process.
AcmeReturn(t) ==
    /\ ~crashed
    /\ op[t].pc = "after"
    /\ LET saved == [op[t].entry EXCEPT !.cert = op[t].certificates]
           done == [op[t] EXCEPT !.entry = EmptyZone, !.certificates = NoCert, !.warn = {}]
       IN  IF op[t].err # "nil"
           THEN /\ op' = [op EXCEPT ![t] = [done EXCEPT !.pc = "done"]]
                /\ UNCHANGED <<zoneStore, firstProv, crashed>>
           ELSE IF op[t].certificates = NoCert
           THEN /\ op' = [op EXCEPT ![t] = [done EXCEPT !.pc = "panic"]]
                /\ crashed' = (op[t].kind = "timer")
                /\ UNCHANGED <<zoneStore, firstProv>>
           ELSE /\ zoneStore' = StorageSet(zoneStore, saved)
                /\ firstProv' = FirstProvOf(firstProv, zoneStore')
                /\ op' = [op EXCEPT ![t] =
                             [done EXCEPT !.pc = "done", !.event = "UPDATE",
                                          !.out = IF op[t].kind = "timer" THEN {}
                                                  ELSE {"Acme issued certificate"}
                                                       \cup op[t].warn]]
                /\ UNCHANGED crashed
    /\ UNCHANGED <<accounts, acmeMutex, legoLogger, ops, destroy>>
    /\ UNCHANGED <<now, constructed, unknown, cacheVars, renVars, taskVars, watchVars, chainVars>>

NextSvc ==
    \/ \E t \in Tasks, line \in CommandLines, tok \in BOOLEAN, chal \in BOOLEAN,
          whois \in {"route53", ""} : Command(t, line, tok, chal, whois)
    \/ \E t \in Tasks, zone \in Zones, chal \in BOOLEAN : TimerRenew(t, zone, chal)
    \/ \E t \in Tasks : AcmeEnter(t) \/ AcmeLeave(t) \/ AcmeReturn(t)
    \/ \E t \in Tasks, outcome \in AcmeOutcomes, life \in AcmeLifetimes :
          AcmeCall(t, outcome, life)


Next ==
    \/ Tick
    \/ PostConstructZone
    \/ PostConstructCache
    \/ \E l \in Lookups, name \in ServerNames : LookupStart(l, name)
    \/ \E l \in Lookups : LookupGet(l) \/ LookupLoad(l) \/ LookupClone(l)
    \/ \E i \in SRIds : SRLoadAndDelete(i) \/ SRLoadOrStore(i) \/ SRTimer(i)
    \/ \E r \in Rens : TimerFire(r) \/ RenewBegin(r)
    \/ \E r \in Rens, ok \in BOOLEAN, life \in AcmeLifetimes : RenewIssue(r, ok, life)
    \/ \E r \in Rens : RenewInvCache(r) \/ RenewInvStop(r) \/ RenewInvDelete(r)
    \/ WatcherRecvAdmin
    \/ \E r \in Rens : WatcherRecvRenew(r)
    \/ WatcherInvCache \/ WatcherInvStop \/ WatcherInvDelete
    \/ \E e \in UploadEntries : uploadCert(e)
    \/ \E z \in Zones : createSelfCert(z) \/ removeCert(z)
    \/ \E z \in Zones, c \in UploadCerts : createCustomCert(z, c)
    \/ \E z \in Zones, ok \in BOOLEAN, life \in AcmeLifetimes : renewCert(z, ok, life)

vars == <<mgrVars, watchVars, chainVars, svcVars>>
Init == InitMgr /\ InitWatch /\ InitChain /\ InitDestroy /\ InitSvc
Spec == Init /\ [][Next]_vars

\* Every handshake goroutine that can take a step eventually takes it (the Go
\* scheduler runs a runnable goroutine).
LookupStep(l) == LookupGet(l) \/ LookupLoad(l) \/ LookupClone(l)

\* The handshakes against construction, the commands and the watcher's
\* invalidations; the startRenew goroutines and the timers are not scheduled
\* (no step of a handshake waits for one of them).
NextLive ==
    \/ Tick
    \/ PostConstructZone
    \/ PostConstructCache
    \/ \E l \in Lookups, name \in ServerNames : LookupStart(l, name)
    \/ \E l \in Lookups : LookupStep(l)
    \/ WatcherRecvAdmin
    \/ WatcherInvCache \/ WatcherInvStop \/ WatcherInvDelete
    \/ \E e \in UploadEntries : uploadCert(e)
    \/ \E z \in Zones : createSelfCert(z) \/ removeCert(z)
    \/ \E z \in Zones, c \in UploadCerts : createCustomCert(z, c)
    \/ \E z \in Zones, ok \in BOOLEAN, life \in AcmeLifetimes : renewCert(z, ok, life)
SpecDestroy == Init /\ [][NextDestroy]_vars

\* A restarted node serving handshakes, with its renewals and its watcher;
\* no command arrives.
InitRestart ==
    /\ zoneStore \in RestartStores
    /\ InitManager /\ InitWatch /\ InitChain /\ InitDestroy /\ InitSvc
NextStart ==
    \/ Tick
    \/ PostConstructZone
    \/ PostConstructCache
    \/ \E l \in Lookups, name \in HandshakeNames : LookupStart(l, name)
    \/ \E l \in Lookups : LookupStep(l)
    \/ \E i \in SRIds : SRLoadAndDelete(i) \/ SRLoadOrStore(i) \/ SRTimer(i)
    \/ \E r \in Rens : TimerFire(r) \/ RenewBegin(r)
    \/ \E r \in Rens, ok \in BOOLEAN, life \in AcmeLifetimes : RenewIssue(r, ok, life)
    \/ \E r \in Rens : RenewInvCache(r) \/ RenewInvStop(r) \/ RenewInvDelete(r)
    \/ \E r \in Rens : WatcherRecvRenew(r)
    \/ WatcherInvCache \/ WatcherInvStop \/ WatcherInvDelete
SpecStart == InitRestart /\ [][NextStart]_vars

\* The steps of one goroutine each: a startRenew task, a renewal's timer and
\* renew task, the manager's watcher.
SRStep(i) == SRLoadAndDelete(i) \/ SRLoadOrStore(i) \/ SRTimer(i)
RenewStep(r) ==
    \/ TimerFire(r) \/ RenewBegin(r)
    \/ \E ok \in BOOLEAN, life \in AcmeLifetimes : RenewIssue(r, ok, life)
    \/ RenewInvCache(r) \/ RenewInvStop(r) \/ RenewInvDelete(r)
    \/ WatcherRecvRenew(r)
WatcherStep == WatcherInvCache \/ WatcherInvStop \/ WatcherInvDelete

\* Every goroutine that can take a step eventually takes it, and a timer
\* that is due fires (the Go scheduler and the runtime's timers); handshakes
\* arrive and the clock advances as they please.
FairStart ==
    /\ WF_vars(PostConstructZone) /\ WF_vars(PostConstructCache)
    /\ \A l \in Lookups : WF_vars(LookupStep(l))
    /\ \A i \in SRIds : WF_vars(SRStep(i))
    /\ \A r \in Rens : WF_vars(RenewStep(r))
    /\ WF_vars(WatcherStep)
SpecStartLive == InitRestart /\ [][NextStart]_vars /\ FairStart
SpecSvc == Init /\ [][NextSvc]_vars

\* =========================================================================
\* Properties of the certificate command surface
\* =========================================================================
\* Caller t begins a call in this step.
Begins(t) == ops' = ops + 1 /\ op'[t].seq = ops'

\* The zone a complete create command names, "" when it names none.
CreateZoneOf(o) ==
    IF o.kind = "cmd" /\ o.cmd = "create" /\ Len(o.args) >= 2
       /\ \/ o.args[1] = "self"
          \/ o.args[1] = "acme" /\ Len(o.args) >= 3
          \/ o.args[1] = "custom" /\ Len(o.args) >= 5
    THEN ToZone(o.args[2]) ELSE ""

\* C11: a create self, create acme or create custom command for a zone that
\* already has a stored record returns the "zone already exist" error, leaves
\* the zone store as it was and emits no watch event.
C11_CreateExistingRejected ==
    [][\A t \in Tasks :
          (Begins(t) /\ CreateZoneOf(op'[t]) # ""
             /\ zoneStore[CreateZoneOf(op'[t])].zone # "")
          => /\ op'[t].pc = "done"
             /\ op'[t].err = "zone already exist"
             /\ op'[t].out = {}
             /\ op'[t].event = ""
             /\ zoneStore' = zoneStore]_vars

C11_Witness ==
    \E t \in Tasks, u \in Tasks :
        /\ op[t].pc = "done" /\ op[t].err = "zone already exist"
        /\ op[t].args[1] = "custom"
        /\ op[u].pc = "done" /\ op[u].seq < op[t].seq
        /\ CreateZoneOf(op[u]) = CreateZoneOf(op[t])
        /\ op[u].args[1] = "self" /\ op[u].event = "UPDATE"

\* C12: when the ACME registration, obtain or renew call of a caller has
\* failed, the caller gets an error back from IssueAcmeCertificate or
\* RenewCertificate, the zone's stored bundle is the one it was, and the
\* process goes on serving the other zones.
C12_AcmeFailureIsAnError ==
    /\ ~crashed
    /\ \A t \in Tasks :
          (op[t].pc \in {"done", "panic"} /\ op[t].cbErr # "nil")
          => op[t].pc = "done" /\ op[t].err # "nil"

\* Caller t is inside doAcmeCall between Lock and Unlock.
InAcmeCall(t) == op[t].pc \in {"cb", "restore"}

\* C13: at most one caller is inside an ACME call at any time, whatever the
\* zones, and whenever no caller is inside one the logger of the ACME
\* library is the original one.
C13_AcmeCallsSerialized ==
    /\ \A t \in Tasks, u \in Tasks : (InAcmeCall(t) /\ InAcmeCall(u)) => t = u
    /\ (\A t \in Tasks : ~InAcmeCall(t)) => legoLogger = 0
    /\ \A t \in Tasks : InAcmeCall(t) => acmeMutex = t /\ legoLogger = t

\* One caller runs its ACME callback while another, for a different
\* command, waits for the mutex.
C13_Witness ==
    \E t \in Tasks, u \in Tasks :
        /\ op[t].pc = "cb" /\ op[u].pc = "lock"
        /\ op[t].entry.zone = op[u].entry.zone
        /\ op[t].args # op[u].args
        /\ legoLogger = t

\* C14: an ACME account, once stored for an email, keeps its key pair: no
\* later operation for that email (an issuance, `acme create`, `acme
\* upload`) changes the stored account.
C14_AccountImmutable ==
    [][\A e \in Emails : accounts[e] # NoKey => accounts'[e] = accounts[e]]_vars

\* The zone whose RenewCertificate the call o makes, "" when it makes none.
RenewZoneOf(o) ==
    IF (o.kind = "timer" \/ o.cmd = "renew") /\ Len(o.args) >= 1 THEN o.args[1] ELSE ""

\* C15: RenewCertificate for a stored zone whose provider is custom returns
\* an error, leaves the zone store as it was and emits no watch event.
C15_CustomNotRenewed ==
    [][\A t \in Tasks :
          (Begins(t) /\ RenewZoneOf(op'[t]) \in Zones
             /\ zoneStore[RenewZoneOf(op'[t])].zone # ""
             /\ zoneStore[RenewZoneOf(op'[t])].provider = "custom")
          => /\ op'[t].pc = "done"
             /\ op'[t].err = "can not issue custom certificates"
             /\ op'[t].event = ""
             /\ zoneStore' = zoneStore]_vars

\* `renew a.com` has failed for the zone an earlier `create custom` stored.
C15_Witness ==
    \E t \in Tasks, u \in Tasks :
        /\ op[t].pc = "done" /\ op[t].cmd = "renew" /\ op[t].args = <<"a.com">>
        /\ op[t].err = "can not issue custom certificates"
        /\ op[u].pc = "done" /\ op[u].seq < op[t].seq /\ op[u].cmd = "create"
        /\ op[u].event = "UPDATE"
        /\ zoneStore["a.com"].provider = "custom"

\* The number of words a command line needs after the command, as its
\* usage text states them (optional words in brackets not counted).
RequiredArgs(cmd, args) ==
    IF cmd \in {"dump", "upload", "renew", "remove", "manager"} THEN 1
    ELSE IF cmd = "create"
    THEN (IF args = <<>> THEN 1
          ELSE IF args[1] = "self" THEN 2
          ELSE IF args[1] = "acme" THEN 3
          ELSE IF args[1] = "custom" THEN 5
          ELSE 1)
    ELSE IF cmd = "client"
    THEN (IF args # <<>> /\ args[1] = "install" THEN 2 ELSE 1)
    ELSE IF cmd \in {"acme", "self"}
    THEN (IF args # <<>> /\ args[1] \in {"create", "upload", "dump"} THEN 2 ELSE 1)
    ELSE 0

UsageTexts ==
    {"Usage: cert dump zone", "Usage: cert upload dump_file.json",
     "Usage: cert create cert_provider [self,acme,custom]",
     "Usage: cert create self domain [self-signer]",
     "Usage: cert create acme domain email [dns_provider]",
     "Usage: cert create custom domain cert_file key_file issuer_cert_file",
     "Usage: cert renew zone", "Usage: cert remove zone",
     "Usage: cert client [install]", "Usage: cert client install zone",
     "Usage: cert acme [list create upload dump]", "Usage: cert acme create email",
     "Usage: cert acme upload dump_file.json", "Usage: cert acme dump email",
     "Usage: cert self [list create upload dump]", "Usage: cert self create cn",
     "Usage: cert self upload dump_file_json", "Usage: cert self dump cn",
     "Usage: cert manager [list active renewal unknown]"}

\* C16: a command of the certificate command surface (manager included)
\* that is invoked with fewer words than it requires returns a usage text
\* and a nil error, and changes neither the stores nor the cache.
C16_MissingArgsUsage ==
    [][\A t \in Tasks :
          (Begins(t) /\ op'[t].kind = "cmd"
             /\ Len(op'[t].args) < RequiredArgs(op'[t].cmd, op'[t].args))
          => /\ op'[t].pc = "done"
             /\ op'[t].err = "nil"
             /\ \E u \in UsageTexts : op'[t].out = {u}
             /\ op'[t].event = ""
             /\ zoneStore' = zoneStore
             /\ accounts' = accounts
             /\ UNCHANGED <<cacheVars, chainVars>>]_vars

\* `create custom a.com cert.pem key.pem`, one file short, has returned
\* the usage text of create custom.
C16_Witness ==
    \E t \in Tasks :
        /\ op[t].pc = "done" /\ op[t].cmd = "create"
        /\ op[t].args = <<"custom", "a.com", "cert.pem", "key.pem">>
        /\ op[t].err = "nil"
        /\ op[t].out = {"Usage: cert create custom domain cert_file key_file issuer_cert_file"}

\* o is a complete `create acme` command line.
IsCreateAcme(o) ==
    o.kind = "cmd" /\ o.cmd = "create" /\ Len(o.args) >= 3 /\ o.args[1] = "acme"

\* Caller t begins, in this step, a `create acme` for a free zone that names
\* a DNS provider nobody registered.
UnknownProviderCreate(t) ==
    /\ Begins(t) /\ IsCreateAcme(op'[t])
    /\ Len(op'[t].args) = 4 /\ op'[t].args[4] # "route53"
    /\ ToZone(op'[t].args[2]) # ""
    /\ zoneStore[ToZone(op'[t].args[2])].zone = ""

AcmeWarnings ==
    {"Warning: token for DNS provider not found", "Warning: ACME account was not found"}

\* C17 as stated: a `create acme` whose DNS provider is not found does not
\* fail; it goes on to issue and ends with a warning in its message.
C17_UnknownProviderWarns ==
    [][\A t \in Tasks :
          UnknownProviderCreate(t) => op'[t].err = "nil" /\ op'[t].pc = "lock"]_vars

\* C17: a `create acme` whose DNS provider is not found fails with the
\* "dns provider not found in supported list" error and stores nothing; what a
\* successful `create acme` appends to its message are the warnings that the
\* provider's token or the ACME account was not found.
C17_UnknownProviderFails ==
    /\ [][\A t \in Tasks :
            UnknownProviderCreate(t)
            => /\ op'[t].pc = "done"
               /\ op'[t].err = "dns provider not found in supported list"
               /\ op'[t].out = {}
               /\ op'[t].event = ""
               /\ zoneStore' = zoneStore]_vars
    /\ [](\A t \in Tasks :
            (op[t].pc = "done" /\ IsCreateAcme(op[t]) /\ op[t].event = "UPDATE")
            => /\ op[t].err = "nil"
               /\ "Acme issued certificate" \in op[t].out
               /\ op[t].out \ {"Acme issued certificate"} \subseteq AcmeWarnings
               /\ Len(op[t].args) = 4 => op[t].args[4] = "route53")

\* One `create acme` has failed for its unknown provider; another, with a
\* known provider whose token was not found, has stored its zone and ends
\* with the warning.
C17_Witness ==
    \E t \in Tasks, u \in Tasks :
        /\ op[t].pc = "done" /\ IsCreateAcme(op[t])
        /\ op[t].err = "dns provider not found in supported list"
        /\ op[u].pc = "done" /\ IsCreateAcme(op[u]) /\ op[u].event = "UPDATE"
        /\ "Warning: token for DNS provider not found" \in op[u].out
        /\ zoneStore["a.com"].provider = "acme"

\* The zones that have a stored record.
Stored == {z \in Zones : zoneStore[z].zone # ""}

\* The zone the finished call o saved, "" when it saved none.
SavedZoneOf(o) ==
    IF o.event # "UPDATE" THEN ""
    ELSE IF o.kind = "timer" \/ o.cmd = "renew" THEN o.args[1]
    ELSE IF o.cmd = "upload" THEN ZoneFiles[o.args[1]].zone
    ELSE CreateZoneOf(o)

\* C18: `create self` for a domain succeeds on an empty zone store and stores
\* the zone; `list` without a prefix returns, after its header, exactly the
\* stored zones, and a zone becomes stored only by a call that saved it and
\* stops being stored only by a `remove` of it.
C18_ListShowsCreated ==
    [][/\ \A t \in Tasks :
            /\ (Begins(t) /\ CreateZoneOf(op'[t]) # "" /\ op'[t].args[1] = "self"
                   /\ Stored = {})
               => /\ op'[t].pc = "done" /\ op'[t].err = "nil"
                  /\ op'[t].event = "UPDATE"
                  /\ Stored' = {CreateZoneOf(op'[t])}
            /\ (Begins(t) /\ op'[t].cmd = "list" /\ op'[t].args = <<>>)
               => /\ op'[t].pc = "done" /\ op'[t].err = "nil"
                  /\ op'[t].out \ {"Zone,Domains,Provider,Options,Issued"} = Stored
       /\ \A z \in Stored' \ Stored :
            \E t \in Tasks : op'[t] # op[t] /\ op'[t].pc = "done" /\ SavedZoneOf(op'[t]) = z
       /\ \A z \in Stored \ Stored' :
            \E t \in Tasks : Begins(t) /\ op'[t].cmd = "remove" /\ op'[t].args = <<z>>
                                /\ op'[t].event = "DELETE"]_vars

\* On an empty store `create self www.a.com` was followed by a `list`
\* whose output holds the zone a.com and nothing else after the header.
C18_Witness ==
    \E t \in Tasks, u \in Tasks :
        /\ op[u].pc = "done" /\ op[u].seq = 1
        /\ op[u].cmd = "create" /\ op[u].args = <<"self", "www.a.com">>
        /\ op[u].err = "nil"
        /\ op[t].pc = "done" /\ op[t].seq = 2
        /\ op[t].cmd = "list" /\ op[t].args = <<>>
        /\ op[t].out = {"Zone,Domains,Provider,Options,Issued", "a.com"}








SpecLive ==
    Init /\ [][NextLive]_vars /\ \A l \in Lookups : WF_vars(LookupStep(l))

\* The repository and the issuer service on their own, with an empty zone
\* store.
InitEmpty == Init /\ \A z \in Zones : zoneStore[z] = EmptyZone
SpecWatch == InitEmpty /\ [][NextWatch]_vars
SpecChain == InitEmpty /\ [][NextChain]_vars

\* =========================================================================
\* Properties of the watch registry
\* =========================================================================

\* C7: when DeleteZone has returned without error, every watcher that was
\* registered before the call and still is has received its DELETE event,
\* once; no watcher receives the event of a DeleteZone that had returned
\* before the watcher registered, and none receives an event twice.
C7_DeleteDelivered ==
    /\ (dz.pc = "done" /\ dz.err = "nil")
          => \A h \in dz.before \cap watchMap : wc[h].got[dz.n] = 1
    /\ \A h \in Handles, n \in Deletes :
          /\ wc[h].got[n] <= 1
          /\ wc[h].got[n] = 1 => wc[h].regAfter < n

\* A DeleteZone has returned after notifying two watchers, and a third
\* watcher registered afterwards and has no event.
C7_Witness ==
    /\ dz.pc = "done" /\ dz.err = "nil"
    /\ Cardinality(dz.before \cap watchMap) >= 2
    /\ \A h \in dz.before \cap watchMap : wc[h].got[dz.n] = 1
    /\ \E h \in watchMap : wc[h].regAfter = dz.n /\ wc[h].got[dz.n] = 0

\* =========================================================================
\* Properties of the certificate manager
\* =========================================================================

\* Renewal r is inside CertificateService.RenewCertificate (between its
\* FindZone and the return of SaveZone), started by its timer.
InRenewCertificate(r) == ren[r].pc \in {"issue", "notify"}

\* C1: for every zone at most one RenewCertificate started by the manager is
\* in flight: no two renewals of the same zone are inside RenewCertificate
\* at the same time.
C1_OneIssuanceInFlight ==
    \A r1 \in Rens, r2 \in Rens :
        (r1 # r2 /\ InRenewCertificate(r1) /\ InRenewCertificate(r2))
            => ren[r1].zone # ren[r2].zone

\* C2: GetCertificate calls for the same zone with no invalidation in
\* between share one certState, which loadCertificate fills exactly once:
\* no state is loaded twice, two live states of one zone are separated by an
\* invalidation, and a state not loaded yet is about to be loaded by the
\* caller that stored it.
C2_LoadedExactlyOnce ==
    /\ \A g \in Gens : st[g].loads <= 1
    /\ \A g1 \in Gens, g2 \in Gens :
          (g1 # g2 /\ st[g1].zone # "" /\ st[g1].zone = st[g2].zone)
              => (st[g1].invalidated \/ st[g2].invalidated)
    /\ \A g \in Gens :
          (st[g].zone # "" /\ st[g].loads = 0)
              => \E l \in Lookups : lk[l].pc = "load" /\ lk[l].s = g

\* Two handshakes for a.com are in progress on the same certState, which was
\* loaded once.
C2_Witness ==
    /\ lk[1].zone = "a.com" /\ lk[2].zone = "a.com"
    /\ lk[1].s # 0 /\ lk[1].s = lk[2].s
    /\ st[lk[1].s].loads = 1

\* C3: after PostConstruct a GetCertificate with an empty server name never
\* answers ErrCertificateNotFound.
C3_EmptyNameNeverNotFound ==
    \A l \in Lookups :
        (lk[l].pc = "clone" /\ lk[l].name = "")
            => Answer(l) # "ErrCertificateNotFound"

\* C4: a getCertificate never hands out a certState that was in the cache
\* when its zone was invalidated: every state a lookup obtains is one stored
\* after the last cache.Delete of the zone, loaded by the caller that
\* stored it.
C4_FreshAfterInvalidate ==
    [][\A l \in Lookups :
          (lk'[l].s # 0 /\ lk'[l].s # lk[l].s)
              => /\ ~st'[lk'[l].s].invalidated
                 /\ cache'[lk'[l].zone] = lk'[l].s]_vars

\* A lookup holds a loaded state of a zone whose earlier generation was
\* invalidated (the earlier state is still referenced).
C4_Witness ==
    \E l \in Lookups, g \in Gens :
        /\ lk[l].s # 0 /\ lk[l].s # g
        /\ st[lk[l].s].loads = 1 /\ ~st[lk[l].s].invalidated
        /\ st[g].zone = lk[l].zone /\ st[g].invalidated

\* C5: no renewal created for an earlier cache generation runs
\* RenewCertificate after the invalidation of that generation has returned.
C5_NoStaleRenewal == \A r \in Rens : ren[r].pc = "issue" => ~ren[r].stale

\* C6 as stated: a lookup that is answered from a state whose leaf was
\* expired at load time gets ErrExpiredCertificate.
C6_ExpiredYieldsError ==
    \A l \in Lookups :
        (lk[l].pc = "clone" /\ st[lk[l].s].verr = "ErrExpiredCertificate")
            => Answer(l) = "ErrExpiredCertificate"

\* C6 as the code has it: a state loaded from an expired leaf holds the
\* certificate and no error, so Clone serves the expired certificate; for a
\* self or acme zone startRenew was started for the time of the load (no
\* grace interval), for another provider it was not started.
C6_ExpiredServedAndRenewedNow ==
    \A g \in Gens :
        st[g].verr = "ErrExpiredCertificate"
            => /\ st[g].tlsCert # NoCert
               /\ st[g].loadErr = "nil"
               /\ Clone(st[g]) = "nil"
               /\ st[g].renewAsked = (st[g].prov \in {"self", "acme"})
               /\ st[g].renewAsked => st[g].renewNow

\* A handshake is about to be answered from a state loaded from an expired
\* leaf for which a renewal was requested.
C6_Witness ==
    \E l \in Lookups :
        /\ lk[l].pc = "clone"
        /\ st[lk[l].s].verr = "ErrExpiredCertificate"
        /\ st[lk[l].s].renewNow

\* The model has no certState left for the getCertificate lookup l is about
\* to make.
OutOfStates(l) == lk[l].pc = "get" /\ cache[lk[l].zone] = 0 /\ nextGen > MaxGen

\* C19: the zones a GetCertificate has examined are the zone of the server
\* name, or that zone followed by "localhost" (two distinct zones), and every
\* call returns: a handshake in progress ends (or stands at a getCertificate
\* for which the model has no certState left).
C19_LookupTerminates ==
    /\ [](\A l \in Lookups :
            lk[l].pc # "idle"
                => \/ lk[l].seen = <<zoneOf(lk[l].name)>>
                   \/ /\ lk[l].seen = <<zoneOf(lk[l].name), "localhost">>
                      /\ zoneOf(lk[l].name) # "localhost")
    /\ \A l \in Lookups :
          (lk[l].pc # "idle") ~> (lk[l].pc = "idle" \/ OutOfStates(l))

\* A handshake for a.com found no certificate and is on its second zone,
\* localhost, with a certState in hand.
C19_Witness ==
    \E l \in Lookups :
        /\ lk[l].pc = "clone"
        /\ lk[l].seen = <<"a.com", "localhost">>

\* C20: when Destroy has returned, the watch has been cancelled and no
\* renewal timer is pending.
C20_DestroyStopsAll ==
    destroy.pc = "done"
        => /\ destroy.cancelled
           /\ \A r \in Rens : ren[r].timer # "live"

\* C8: a stored zone record has the provider kind of its first save.
C8_ProviderKept ==
    \A z \in Zones : zoneStore[z].zone # "" => zoneStore[z].provider = firstProv[z]

\* =========================================================================
\* Properties of the self signer chain
\* =========================================================================

\* C9: loading a signer that CreateSelfSigner saved yields an issuer of the
\* depth that was built, with the certificate and the key that were built
\* at every level, and at every level the certificate's public key is the
\* public key of the level's private key.
C9_SaveLoadRoundTrip ==
    (lastLoad.op = "load" /\ lastLoad.expect # <<>>)
        => /\ lastLoad.res.err = "nil"
           /\ Len(lastLoad.res.issuer) = Len(lastLoad.expect)
           /\ \A i \in 1..Len(lastLoad.expect) :
                 /\ lastLoad.res.issuer[i].x509Cert = lastLoad.expect[i].x509Cert
                 /\ lastLoad.res.issuer[i].certContents = lastLoad.expect[i].certContents
                 /\ lastLoad.res.issuer[i].key = lastLoad.expect[i].key
                 /\ lastLoad.res.issuer[i].x509Cert.cn # ""
                 /\ publicKeysEqual(Public(lastLoad.res.issuer[i].key),
                                    lastLoad.res.issuer[i].x509Cert.pub)

\* A signer built with an intermediate (depth 2) was saved and loaded.
C9_Witness ==
    /\ lastLoad.op = "load"
    /\ Len(lastLoad.expect) = 2
    /\ Len(lastLoad.res.issuer) = 2

\* C10: LoadIssuer gives an error and no issuer when any level of the
\* signer does not read or has keys that do not match; every stored signer
\* has only levels that read and match, so selfUpload saved none that fails.
C10_BadChainRejected ==
    /\ (lastLoad.op # "" /\ \E i \in 1..Len(lastLoad.signer) : ~LevelOk(lastLoad.signer[i]))
          => /\ lastLoad.res.err # "nil"
             /\ lastLoad.res.issuer = <<>>
             /\ ~lastLoad.saved
    /\ \A n \in SignerNames :
          selfStore[n] # <<>>
              => \A i \in 1..Len(FindSelfSigner(n)) : LevelOk(FindSelfSigner(n)[i])

\* An uploaded signer whose own level is good and whose Issuer is not was
\* rejected and not stored.
C10_Witness ==
    /\ lastLoad.op = "upload"
    /\ Len(lastLoad.signer) = 2
    /\ LevelOk(lastLoad.signer[1])
    /\ ~LevelOk(lastLoad.signer[2])
    /\ lastLoad.res.err # "nil"
    /\ selfStore[lastLoad.signer[1].name] = <<>>

\* =========================================================================
\* Properties of the manager's construction, loads and renewals
\* =========================================================================

\* C21: when PostConstruct has completed without error, a zone "localhost"
\* with provider self and an issued bundle is stored, the cache holds one
\* loaded entry under "localhost" and under "127.0.0.1", and the manager's
\* watcher is registered.
C21_LocalhostReady ==
    [][(constructed # "done" /\ constructed' = "done")
       => /\ zoneStore'["localhost"].zone = "localhost"
          /\ zoneStore'["localhost"].provider = "self"
          /\ zoneStore'["localhost"].cert # NoCert
          /\ cache'["localhost"] # 0
          /\ cache'["127.0.0.1"] = cache'["localhost"]
          /\ st'[cache'["localhost"]].loads = 1
          /\ watcher'.pc = "select"]_vars

\* C22: a lazy load that reads a zone with provider self and no bundle calls
\* RenewCertificate itself, reads the zone again and holds the newly issued
\* certificate, which the lookup returns.
C22_SelfZoneIssuedOnLoad ==
    \A g \in Gens :
        (st[g].loads = 1 /\ st[g].prov = "self" /\ ~st[g].bundle)
        => st[g].sync /\ st[g].loadErr = "nil" /\ st[g].tlsCert # NoCert

\* C23: a lazy load that reads a zone with provider acme and no bundle
\* starts the asynchronous issuance of the zone (once for the cache
\* generation) and returns ErrCertificateNotIssued without waiting for it.
C23_AcmeZoneIssueStarted ==
    \A g \in Gens :
        (st[g].loads = 1 /\ st[g].prov = "acme" /\ ~st[g].bundle)
        => st[g].issue /\ st[g].loadErr = "ErrCertificateNotIssued"

\* The cache holds, for zone z with provider self or acme, a loaded state
\* whose leaf was valid when it was loaded.
CachedValid(z) ==
    /\ cache[z] # 0
    /\ st[cache[z]].loads = 1
    /\ st[cache[z]].tlsCert # NoCert
    /\ st[cache[z]].verr = "nil"
    /\ st[cache[z]].prov \in {"self", "acme"}

\* A renewal is registered for z that fires no later than 24 hours before
\* the NotAfter of the cached leaf.
RenewalRegistered(z) ==
    /\ renewal[z] # 0
    /\ ren[renewal[z]].at <= st[cache[z]].tlsCert.na - RenewBefore

\* The model has no certRenewal left for the LoadOrStore a startRenew of
\* zone z is about to make.
OutOfRenewals(z) ==
    \E i \in SRIds :
        sr[i].pc = "los" /\ sr[i].zone = z /\ renewal[z] = 0 /\ nextRen > MaxRen

\* C24: whenever the cache holds a valid loaded certificate of a self or
\* acme zone, a renewal for the zone becomes registered with fire time
\* NotAfter minus 24 hours or earlier (unless the entry leaves the cache
\* first); this includes the reload after a successful automatic renewal.
C24_ValidCachedGetsRenewal ==
    \A z \in Zones :
        CachedValid(z) ~> (~CachedValid(z) \/ RenewalRegistered(z) \/ OutOfRenewals(z))

\* The renew task of a renewal of zone z has seen RenewCertificate fail.
RenewFailed(z) == \E r \in Rens : ren[r].zone = z /\ ren[r].pc = "retry"

\* A renewal whose timer has not fired is registered for z.
RenewalPending(z) ==
    renewal[z] # 0 /\ ren[renewal[z]].timer \in {"nil", "live"}

\* C25: when a renewal timer has fired and RenewCertificate has failed, a
\* renewal for the zone is registered again, to fire one grace interval
\* after the failure.
C25_FailedRenewalRetried ==
    \A z \in Zones : RenewFailed(z) ~> (RenewalPending(z) \/ OutOfRenewals(z))

\* C26: when a renewal timer has fired and RenewCertificate has succeeded
\* (the renewed zone is saved), the renew task invalidates the zone (the
\* cache entry and the fired renewal are removed) and runs to completion.
C26_RenewTaskCompletes ==
    \A r \in Rens : (ren[r].pc = "notify") ~> (ren[r].pc = "done")

\* C27: no zone ever has a live (unfired, unstopped) timer whose renewal is
\* not the one registered for the zone, nor two live timers; so after a
\* startRenew has returned the registry holds the one renewal of the zone.
C27_LiveTimersRegistered ==
    \A r \in Rens :
        ren[r].timer = "live"
        => /\ renewal[ren[r].zone] = r
           /\ \A q \in Rens : (ren[q].timer = "live" /\ ren[q].zone = ren[r].zone) => q = r

\* A caller of certRenewal.Stop that is held in the body of stopOnce, or
\* behind it, and so has not returned.
StopNeverReturns ==
    \/ watcher.pc = "blocked"
    \/ \E r \in Rens : ren[r].pc = "blocked" \/ ren[r].stop = "blocked"
    \/ \E i \in SRIds : sr[i].pc = "blocked"

\* Stop of renewal r has returned, and the timer of r is running or has
\* started renew all the same.
RenewsAfterStop(r) == ren[r].stop = "done" /\ ren[r].timer \in {"live", "fired"}

\* C28: certRenewal.Stop always returns, also when the timer has fired, and
\* once Stop has returned the renew of that timer does not start (also when
\* Stop runs between the registration of the renewal and the creation of
\* its timer).
C28_StopReturnsAndPrevents ==
    /\ ~StopNeverReturns
    /\ \A r \in Rens : ~RenewsAfterStop(r)

\* =========================================================================
\* Properties of the watcher's dispatch task
\* =========================================================================

\* The goroutine of Watch takes its steps: of the two ready cases of the
\* select one is chosen at random, so ctx.Done() is not passed over for
\* ever; the callback returns; the deferred functions run.
FairWatch ==
    \A h \in Handles :
        /\ SF_vars(WatcherDone(h))
        /\ WF_vars(\E more \in BOOLEAN : callback(h, more))
        /\ WF_vars(unregisterWatch(h))
        /\ WF_vars(closeChannel(h))

\* The watch registry with at most MaxDispatch watchers.
WatchBelow ==
    /\ watchNum < MaxDispatch
    /\ Watch
NextDispatch ==
    \/ WatchBelow
    \/ \E h \in Handles : cancel(h) \/ WatcherDone(h) \/ WatcherRecv(h)
    \/ \E h \in Handles, more \in BOOLEAN : callback(h, more)
    \/ \E h \in Handles : unregisterWatch(h) \/ closeChannel(h)
    \/ \E ok \in BOOLEAN : DeleteZone(ok)
    \/ \E h \in Handles : notifyPick(h)
    \/ notifySendClosed
    \/ notifyReturn
SpecDispatch == InitEmpty /\ [][NextDispatch]_vars /\ FairWatch

\* The dispatch task of watcher h is in its loop (in select or in the
\* callback).
Dispatching(h) == wc[h].pc \in {"select", "cb"}
\* The dispatch task of h has left its loop.
Left(h) == wc[h].pc \in {"unreg", "close", "gone"}
\* The callback of h is invoked in this step.
Invoked(h) == wc'[h].pc = "cb" /\ wc[h].pc # "cb"

\* While it runs, watcher h is registered and its queue is open; it leaves
\* the select only when cancelled, and the callback otherwise (on false);
\* having left, it is never invoked again, it is out of the registry before
\* its queue is closed, and it never runs again.
DispatchStep(h) ==
    /\ Dispatching(h) => h \in watchMap /\ ~wc[h].closed
    /\ (wc[h].pc = "select" /\ Left(h)') => wc[h].cancelled
    /\ (Dispatching(h) /\ Left(h)') => wc'[h].pc = "unreg"
    /\ Left(h) => Left(h)' /\ ~Invoked(h) /\ wc'[h].got = wc[h].got
    /\ wc[h].closed => h \notin watchMap /\ wc[h].pc = "gone"
    /\ wc[h].pc = "gone" => wc[h].closed

Decides(l) == lk[l].pc = "clone" /\ lk'[l] # lk[l]

\* The zone handshake l examines has no bundle in the repository, and the
\* state the handshake holds carries no certificate of an earlier record.
ZoneUnknown(l) ==
    /\ FindZone(lk[l].zone).cert = NoCert
    /\ st[lk[l].s].tlsCert = NoCert

\* C30: when the zone a handshake examines is unknown (no persisted record
\* or no bundle), GetCertificate records the requested domain under that
\* zone in the unknown map and goes on with localhost; on localhost it
\* answers with the localhost certificate when that is loaded, and it
\* answers ErrCertificateNotFound only when localhost itself is unknown.
C30_UnknownRecordedFallback ==
    [][\A l \in Lookups :
          Decides(l)
          => /\ ZoneUnknown(l)
                   => /\ domainOf(lk[l].name) \in unknown'[lk[l].zone]
                      /\ lk[l].zone # "localhost"
                            => lk'[l].pc = "get" /\ lk'[l].zone = "localhost"
             /\ (lk[l].zone = "localhost" /\ st[lk[l].s].tlsCert # NoCert)
                   => Answer(l) = "cert"
             /\ Answer(l) = "ErrCertificateNotFound"
                   => lk[l].zone = "localhost" /\ ZoneUnknown(l)]_vars

\* =========================================================================
\* Properties of lookups that meet a load in progress or an invalidation
\* =========================================================================

\* The state handshake l obtained is still loading: another caller runs its
\* loadOnce, and neither a certificate nor an error is set.
StillLoading(l) ==
    /\ lk[l].pc = "clone"
    /\ st[lk[l].s].loads = 0
    /\ Clone(st[lk[l].s]) = "ErrCertificateNotReady"

\* C31: a GetCertificate that finds the cache entry of the requested zone
\* still loading returns ErrCertificateNotReady.
C31_LoadingReturnsNotReady ==
    \A l \in Lookups : StillLoading(l) => Answer(l) = "ErrCertificateNotReady"

\* C32: no cache entry outlives the invalidation of the zone it was loaded
\* from: once an InvalidateCache of the zone has returned, no key of the
\* cache ("127.0.0.1" included) holds the certState that was the cached one
\* when the zone was invalidated, so no lookup is served from it.
C32_NoEntryOutlivesInvalidation ==
    \A k \in CacheKeys :
        (cache[k] # 0 /\ st[cache[k]].invalidated)
            => InvalidateInProgress(st[cache[k]].zone)

\* The manager's watcher task is inside onZoneChangeEvent (InvalidateCache).
WatcherHandling == watcher.pc \in {"inv1", "inv2", "inv3", "blocked"}

\* C33: the manager's watcher task never blocks forever: an event it has
\* received is handled (InvalidateCache returns and the task is back in its
\* select), and the SaveZone of a renewal, which waits in notifyAll for the
\* watcher to receive, returns.
C33_WatcherNeverStuck ==
    /\ WatcherHandling ~> (watcher.pc = "select")
    /\ \A r \in Rens : (ren[r].pc = "notify") ~> (ren[r].pc # "notify")

\* =========================================================================
\* Properties of notifyAll against a terminating watcher
\* =========================================================================

\* notifyAll is at the send of line 151 to a watcher whose dispatch task has
\* exited and will never receive.
SendsToExited == dz.pc = "send" /\ wc[dz.cur].pc = "gone" /\ ~wc[dz.cur].closed

\* C34: a notifyAll (of SaveZone or DeleteZone) that runs while a watcher
\* terminates never sends on the closed queue of that watcher (the send
\* would panic), and never waits on a watcher that has exited with its
\* queue open.
C34_NoSendOnClosedQueue == dz.pc # "panic" /\ ~SendsToExited

\* =========================================================================
\* Concurrent create commands: FindZone and SaveZone as the two steps they
\* are (no lock is held between them)
\* =========================================================================
\* The create lines callers issue at the same time.
CreateLines ==
    {<<"self", d>> : d \in {"a.com", "www.a.com", "nx"}}
    \cup {<<"custom", "a.com", f, "key.pem", "issuer.pem">> : f \in {"cert.pem", "missing.pem"}}

\* createSelfCert, lines 644-700, and createCustomCert, lines 850-913, up
\* to their SaveZone: the checks, FindZone and the existence test, the
\* issue or the reading of the files.  A handler that gets through holds
\* the entry it is going to save.
CreateFind(t, args) ==
    /\ ~crashed
    /\ op[t].pc \in {"idle", "done"}
    /\ ops < MaxCreates
    /\ LET r == createCert(args, TRUE, TRUE, "")
           call == [NoOp EXCEPT !.kind = "cmd", !.cmd = "create", !.args = args,
                                !.seq = ops + 1]
       IN  op' = [op EXCEPT ![t] =
                     IF r.event = "UPDATE"
                     THEN [call EXCEPT !.pc = "save", !.entry = r.store[ToZone(args[2])],
                                       !.out = r.out]
                     ELSE [call EXCEPT !.pc = "done", !.err = r.err, !.out = r.out]]
    /\ ops' = ops + 1
    /\ UNCHANGED <<accounts, acmeMutex, legoLogger, crashed, destroy>>
    /\ UNCHANGED <<mgrVars, watchVars, chainVars>>

\* lines 700 and 913: CertificateRepository.SaveZone(entry), lines 115-121:
\* Storage.Set under the zone's key, whatever is stored there.
CreateSaveZone(t) ==
    /\ op[t].pc = "save"
    /\ zoneStore' = StorageSet(zoneStore, op[t].entry)
    /\ firstProv' = FirstProvOf(firstProv, zoneStore')
    /\ op' = [op EXCEPT ![t].pc = "done", ![t].event = "UPDATE"]
    /\ UNCHANGED <<accounts, acmeMutex, legoLogger, crashed, ops, destroy>>
    /\ UNCHANGED <<now, constructed, unknown, cacheVars, renVars, taskVars, watchVars,
                   chainVars>>

NextCreate ==
    \/ \E t \in Tasks, args \in CreateLines : CreateFind(t, args)
    \/ \E t \in Tasks : CreateSaveZone(t)
SpecCreate == InitEmpty /\ [][NextCreate]_vars

\* The create of caller t has succeeded for zone z.
Created(t, z) ==
    op[t].pc = "done" /\ op[t].event = "UPDATE" /\ op[t].entry.zone = z

\* C35: of two create commands for the same new zone that run at the same
\* time at most one succeeds (the other gets "zone already exist"): the
\* save of a create never replaces a record another create has saved, and
\* no two callers have both created the zone.
C35_OneCreateWins ==
    [][\A t \in Tasks :
          (op[t].pc = "save" /\ op'[t].pc = "done")
          => /\ FindZone(op[t].entry.zone).zone = ""
             /\ \A u \in Tasks \ {t} : ~Created(u, op[t].entry.zone)]_vars

\* =========================================================================
\* Properties of a zone created after a lookup cached that it is unknown
\* =========================================================================

\* A node started over an empty store, with all MaxGen certStates: the
\* zone of a lookup can be loaded, invalidated and loaded again next to the
\* state of localhost.
InitCreated ==
    /\ zoneStore = [z \in Zones |-> EmptyZone]
    /\ InitManagerFrom(1)
    /\ InitWatch /\ InitChain /\ InitDestroy /\ InitSvc
SpecCreated == InitCreated /\ [][NextLive]_vars

\* Every zone event emitted so far has been handled by the manager's
\* watcher: no SaveZone or DeleteZone waits in notifyAll, and the watcher is
\* back in its select.
ZoneEventsHandled ==
    /\ admin.pc = "idle"
    /\ watcher.pc = "select"
    /\ \A r \in Rens : ren[r].pc # "notify"

\* Handshake l holds the loaded state that is the cached one of a zone that
\* has a bundle in the repository.
HoldsCurrent(l) ==
    /\ lk[l].pc = "clone"
    /\ FindZone(lk[l].zone).cert # NoCert
    /\ st[lk[l].s].loads = 1
    /\ cache[lk[l].zone] = lk[l].s

\* C36: when a lookup has cached a not-found state for a zone with no
\* record, and the zone is then created and its UPDATE event handled, the
\* next lookup for the zone loads the zone again and returns the
\* certificate of the new record, not the cached not-found result.
C36_CreatedZoneServed ==
    \A l \in Lookups :
        (ZoneEventsHandled /\ HoldsCurrent(l))
            => /\ Answer(l) = "cert"
               /\ st[lk[l].s].tlsCert = FindZone(lk[l].zone).cert

\* a.com was looked up and recorded as unknown; it has been created since
\* and the event handled, and a handshake for a.com now holds the loaded
\* state of the new record.
C36_Witness ==
    /\ "a.com" \in unknown["a.com"]
    /\ cmds = 1
    /\ ZoneEventsHandled
    /\ \E l \in Lookups : lk[l].zone = "a.com" /\ lk[l].name = "a.com" /\ HoldsCurrent(l)

\* =========================================================================
\* The serial number and the common name of an issued certificate
\* =========================================================================
\* rand.Int(rand.Reader, big.NewInt(math.MaxInt64)): a number n with
\* 0 <= n < 2^63 - 1, here by its bytes.  The byte values are samples: the
\* smallest, the next and the largest (127 for the first byte).
MaxInt64 == [i \in 1..SerialWidth |-> IF i = 1 THEN 127 ELSE 255]
SerialNumbers ==
    { n \in [1..SerialWidth -> {0, 1, 127, 255}] :
          /\ n[1] \in {0, 1, 127}
          /\ \A i \in 2..SerialWidth : n[i] \in {0, 1, 255}
          /\ n # MaxInt64 }

\* big.Int.Bytes: the big-endian bytes of the number without leading zero
\* bytes, in a slice whose capacity is its length; none for zero.
Bytes(n) ==
    LET nz == {i \in 1..SerialWidth : n[i] # 0}
    IN  IF nz = {} THEN <<>>
        ELSE SubSeq(n, CHOOSE i \in nz : \A j \in nz : i <= j, SerialWidth)

CertKinds == {"Root", "Intermediate", "Client"}

\* lines 230, 444, 492: the serial is drawn (one certificate is followed).
randInt(kind, n) ==
    /\ issuing.pc = "idle"
    /\ issuing' = [pc |-> "drawn", kind |-> kind, serial |-> n, cn |-> <<>>]
    /\ UNCHANGED <<selfStore, nextKey, built, lastLoad, autoupdate, mgrVars, watchVars, svcVars>>

\* lines 236, 454, 502: the template's CommonName formats
\* serial.Bytes()[:3]; the slice expression panics when 3 exceeds the
\* capacity of the slice.
makeTemplate ==
    /\ issuing.pc = "drawn"
    /\ LET b == Bytes(issuing.serial)
       IN  issuing' = IF Len(b) >= 3
                      THEN [issuing EXCEPT !.pc = "made", !.cn = SubSeq(b, 1, 3)]
                      ELSE [issuing EXCEPT !.pc = "panic"]
    /\ UNCHANGED <<selfStore, nextKey, built, lastLoad, autoupdate, mgrVars, watchVars, svcVars>>

NextSerial ==
    \/ \E kind \in CertKinds, n \in SerialNumbers : randInt(kind, n)
    \/ makeTemplate
SpecSerial == InitEmpty /\ [][NextSerial]_vars

\* C37: issuing a root, intermediate or client certificate succeeds for
\* every serial number n with 0 <= n < 2^63 - 1: the computation of the
\* common name from the first three bytes of the serial never fails.
C37_EverySerialIssues ==
    /\ issuing.pc # "panic"
    /\ issuing.pc = "made" => Len(issuing.cn) = 3

\* =========================================================================
\* The autoupdate service: Freeze, Unfreeze, file events, delayed trigger
\* =========================================================================
updFrame == <<selfStore, nextKey, built, lastLoad, issuing, mgrVars, watchVars, svcVars>>

\* hasFreezeJob: the Range over freezeMap finds an entry.
hasFreezeJob == autoupdate.freezeMap # {}

\* Where a goroutine is when it does not run triggerUpdate.
updRest(t) == IF t = "loop" THEN "select" ELSE "idle"

\* Freeze: the next id is taken and stored in freezeMap with the job name.
Freeze(j) ==
    /\ autoupdate.pc[j] = "idle"
    /\ autoupdate.freezeNextId < MaxFreezes
    /\ LET id == autoupdate.freezeNextId + 1
       IN  autoupdate' = [autoupdate EXCEPT !.freezeNextId = id,
                                            !.freezeMap = @ \cup {id},
                                            !.held[j] = id,
                                            !.pc[j] = "frozen"]
    /\ UNCHANGED updFrame

\* Unfreeze, its first statement: freezeMap.Delete(handle).
Unfreeze(j) ==
    /\ autoupdate.pc[j] = "frozen"
    /\ autoupdate' = [autoupdate EXCEPT !.freezeMap = @ \ {autoupdate.held[j]},
                                        !.held[j] = 0,
                                        !.pc[j] = "unfreeze"]
    /\ UNCHANGED updFrame

\* Unfreeze, the left operand of its condition: !t.hasFreezeJob().
UnfreezeHasJob(j) ==
    /\ autoupdate.pc[j] = "unfreeze"
    /\ autoupdate' = [autoupdate EXCEPT
                          !.pc[j] = IF hasFreezeJob THEN "idle" ELSE "load"]
    /\ UNCHANGED updFrame

\* Unfreeze, the right operand: triggerAfterUnfreeze.Load(), then
\* triggerUpdate.
UnfreezeLoad(j) ==
    /\ autoupdate.pc[j] = "load"
    /\ autoupdate' = [autoupdate EXCEPT
                          !.pc[j] = IF autoupdate.triggerAfterUnfreeze
                                    THEN "trigger" ELSE "idle"]
    /\ UNCHANGED updFrame

\* foregroundLoop takes a Create or Write event of the watched file and
\* onEvent compares its size and modification time with cacheStat.
onEvent(changed) ==
    /\ autoupdate.pc["loop"] = "select"
    /\ ~autoupdate.shutdown
    /\ autoupdate.events < MaxEvents
    /\ autoupdate' = [autoupdate EXCEPT
                          !.events = @ + 1,
                          !.pc["loop"] = IF changed THEN "trigger" ELSE "select"]
    /\ UNCHANGED updFrame

\* triggerUpdate, line 179: if t.hasFreezeJob().
triggerUpdate(t) ==
    /\ autoupdate.pc[t] = "trigger"
    /\ autoupdate' = [autoupdate EXCEPT
                          !.pc[t] = IF hasFreezeJob THEN "store" ELSE "schedule"]
    /\ UNCHANGED updFrame

\* line 181: triggerAfterUnfreeze.Store(true).
triggerUpdateStore(t) ==
    /\ autoupdate.pc[t] = "store"
    /\ autoupdate' = [autoupdate EXCEPT !.triggerAfterUnfreeze = TRUE,
                                        !.pc[t] = "again"]
    /\ UNCHANGED updFrame

\* lines 182-184: hasFreezeJob is asked again; return when it still holds.
triggerUpdateAgain(t) ==
    /\ autoupdate.pc[t] = "again"
    /\ autoupdate' = [autoupdate EXCEPT
                          !.pc[t] = IF hasFreezeJob THEN updRest(t) ELSE "schedule"]
    /\ UNCHANGED updFrame

\* lines 186-188: the current time is stored in triggerUpdateTimestamp and
\* a callback is scheduled one second later.
triggerUpdateSchedule(t) ==
    /\ autoupdate.pc[t] = "schedule"
    /\ autoupdate.clock < MaxTriggers
    /\ LET current == autoupdate.clock + 1
       IN  autoupdate' = [autoupdate EXCEPT !.clock = current,
                                            !.triggerUpdateTimestamp = current,
                                            !.timers = @ \cup {current},
                                            !.pc[t] = updRest(t)]
    /\ UNCHANGED updFrame

\* lines 188-199: the callback of time.AfterFunc: when its timestamp is
\* still the stored one it shuts the application down for a restart, or,
\* the file being locked, calls triggerUpdate again.
afterFunc(current, locked) ==
    /\ current \in autoupdate.timers
    /\ autoupdate.pc["timer"] = "idle"
    /\ autoupdate' =
           IF autoupdate.triggerUpdateTimestamp # current
           THEN [autoupdate EXCEPT !.timers = @ \ {current}]
           ELSE IF locked
           THEN [autoupdate EXCEPT !.timers = @ \ {current},
                                   !.pc["timer"] = "trigger"]
           ELSE [autoupdate EXCEPT !.timers = @ \ {current},
                                   !.shutdown = TRUE]
    /\ UNCHANGED updFrame

NextUpdate ==
    \/ \E j \in UpdJobs : \/ Freeze(j)
                          \/ Unfreeze(j)
                          \/ UnfreezeHasJob(j)
                          \/ UnfreezeLoad(j)
    \/ \E changed \in BOOLEAN : onEvent(changed)
    \/ \E t \in UpdThreads : \/ triggerUpdate(t)
                             \/ triggerUpdateStore(t)
                             \/ triggerUpdateAgain(t)
                             \/ triggerUpdateSchedule(t)
    \/ \E current \in 1..MaxTriggers, locked \in BOOLEAN : afterFunc(current, locked)
SpecUpdate == InitEmpty /\ [][NextUpdate]_vars

\* C38: the autoupdate service never calls Application.Shutdown(true)
\* while a freeze handle is outstanding, that is while freezeMap holds an
\* entry: an update detected during a freeze waits for the last Unfreeze.
C38_NoShutdownWhileFrozen ==
    [][(~autoupdate.shutdown /\ autoupdate'.shutdown) => ~hasFreezeJob]_vars

====
